---- MODULE Spec2Model ----
(***************************************************************************)
(* Verification model of the playback-engine repository:                   *)
(*   - the playback engine (engine.rs, coordinator.rs, scheduler.rs,       *)
(*     timeline.rs, playback_state.rs);                                    *)
(*   - the pcap-io dataset writer and reader (api/writer.rs,               *)
(*     api/reader.rs, data/file_writer.rs, data/file_reader.rs,            *)
(*     structures.rs, foundation/utils.rs).                                *)
(* Every specification below constrains all variables; the variables of    *)
(* the components a specification does not exercise stay at their initial  *)
(* values.                                                                 *)
(***************************************************************************)
EXTENDS Integers, Sequences, FiniteSets, TLC

(***************************************************************************)
(* Bounds of the model (not program constants).                            *)
(***************************************************************************)
\* number of start() calls that reach tokio::spawn
MaxTasks == 2
\* number of progress updates (engine.rs:170) explored under control operations
MaxTicks == 3
\* number of add_event calls before a run
MaxEvents == 3
\* largest event time offered to send_current_data in the scheduler component
MaxTime == 3

(***************************************************************************)
(* Program constants.                                                      *)
(***************************************************************************)
\* TimelineController::new(0, 1000) and the literal 1000 of the tick loop
StartTime == 0
EndTime == 1000
\* speeds are fixed-point tenths: 1.0 is 10; the clamp is [0.1, 10.0]
MinSpeed == 1
MaxSpeed == 100
DefaultSpeed == 10
\* interval(Duration::from_millis(10)) of the tick loop
TickIntervalMs == 10

None == "None"

VARIABLES
    \* PlaybackState (shared, behind Arc<Mutex<..>>)
    status, current_timestamp, current_dataset, playback_speed,
    \* PlaybackEngine; timeline is an Option: <<>> is None, <<t>> is Some(t)
    timeline, is_running, tasks,
    \* ConfigState.dataset_configs of the engine's ConfigManager (names only)
    dataset_configs,
    \* history: the result of the last control operation, whether the last
    \* control operation was stop(), progress updates so far, payloads handed
    \* to UDPSender::send_data
    lastResult, stopLast, ticks, handed,
    \* the holders of the two tokio mutexes of the engine (Arc<Mutex<
    \* PlaybackState>> and Arc<Mutex<bool>>), and the control operation in
    \* progress with its position
    mutex, control,
    \* scheduler component: EventScheduler.events, DataCoordinator.sender,
    \* and the phase of the component run; history: the last
    \* get_next_event or send_current_data call as an Option
    events, sender, phase, lastSend,
    \* dataset directory: record file name -> bytes; the system clock in
    \* units of 100 ns
    disk, now,
    \* WriterConfig.max_packets_per_file and CommonConfig.file_name_format
    max_packets_per_file, file_name_format,
    \* api/writer.rs Writer (<<>> before Writer::new and after it is dropped)
    writer,
    \* api/reader.rs PcapReader, or a MultiPcapReader of the application, as
    \* an Option
    reader,
    \* history: records accepted by the writer, the result of its last call,
    \* whether write_packets was called, records returned by the reader, the
    \* result of its last call
    written, wResult, batchUsed, returned, rResult,
    \* the sidecar index file of the dataset directory as an Option
    \* (<<Unparsable>> is a file that does not deserialize), the index a
    \* caller holds in memory as an Option, the result of the last index
    \* operation, and the last index query with its result
    pidx_file, pidx_index, iResult, query

engineVars == <<status, current_timestamp, current_dataset, playback_speed,
                timeline, is_running, tasks, dataset_configs,
                lastResult, stopLast, ticks, mutex, control>>
schedVars == <<events, sender, phase, lastSend>>
dataVars == <<disk, now, max_packets_per_file, file_name_format, writer,
              reader, written, wResult, batchUsed, returned, rResult,
              pidx_file, pidx_index, iResult, query>>
indexVars == <<pidx_file, pidx_index, iResult, query>>
vars == <<engineVars, handed, schedVars, dataVars>>

(***************************************************************************)
(* timeline.rs                                                             *)
(***************************************************************************)
Min(a, b) == IF a <= b THEN a ELSE b
Max(a, b) == IF a >= b THEN a ELSE b
Clamp(x, lo, hi) == Max(lo, Min(x, hi))

TimelineControllerNew(start, end) ==
    [start_time |-> start, end_time |-> end, current_time |-> start,
     playback_speed |-> DefaultSpeed]

set_current_time(tl, time) ==
    [tl EXCEPT !.current_time = Clamp(time, tl.start_time, tl.end_time)]

set_playback_speed(tl, speed) ==
    [tl EXCEPT !.playback_speed = Min(Max(speed, MinSpeed), MaxSpeed)]

\* The f64 product delta_ms * playback_speed is rounded to the nearest f64,
\* and where the exact product is a whole number the rounded one may lie just
\* below it (90.0 * 0.7 is 62.99999999999999), so that `as u64` yields one
\* less.  These are the pairs <<delta_ms, speed>> of that kind among the
\* delays 0, 1, 5, 10, 30 and 90 and the speeds 0.1 to 10.0 in tenths.
ShortProducts ==
    {<<30, 41>>, <<30, 82>>} \cup
    {<<90, sp>> : sp \in {7, 14, 23, 28, 41, 46, 51, 56, 82, 87, 92, 97}}

\* (delta_ms as f64 * playback_speed) as u64
AdvanceAmount(delta_ms, speed) ==
    ((delta_ms * speed) \div DefaultSpeed)
        - (IF <<delta_ms, speed>> \in ShortProducts THEN 1 ELSE 0)

\* timeline.rs advance_time: (delta_ms as f64 * playback_speed) as u64, clamped
\* to end_time; the engine never calls it
advance_time(tl, delta_ms) ==
    LET advance_amount == AdvanceAmount(delta_ms, tl.playback_speed)
        new_time == tl.current_time + advance_amount
    IN IF new_time >= tl.end_time
       THEN [tl |-> [tl EXCEPT !.current_time = tl.end_time], at_end |-> TRUE]
       ELSE [tl |-> [tl EXCEPT !.current_time = new_time], at_end |-> FALSE]

TimelineReset(tl) == [tl EXCEPT !.current_time = tl.start_time]

(***************************************************************************)
(* scheduler.rs: the BinaryHeap of ScheduledEvent under the reversed Ord.  *)
(* The heap is kept as the sequence in which pop() would return its        *)
(* elements: ascending timestamps, events of equal timestamp in any order  *)
(* (BinaryHeap leaves that order unspecified, so add_event may place an    *)
(* event anywhere among its equals).                                       *)
(***************************************************************************)
\* the comparison without the reversal of cmp: a max-heap on timestamps
EventBeforeNatural(a, b) == a.timestamp >= b.timestamp

\* Ord for ScheduledEvent: a is popped no later than b
EventBefore(a, b) == a.timestamp <= b.timestamp

InsertAt(s, i, e) == SubSeq(s, 1, i - 1) \o <<e>> \o SubSeq(s, i, Len(s))

\* positions at which push() may leave the new event in pop order
AddPositions(evs, e) ==
    {i \in 1..(Len(evs) + 1) :
        /\ \A j \in 1..(i - 1) : EventBefore(evs[j], e)
        /\ \A j \in i..Len(evs) : EventBefore(e, evs[j])}

\* get_next_event taking only events before current_time as due
NextEventDueStrict(evs, current_time) ==
    /\ evs # <<>>
    /\ Head(evs).timestamp < current_time

\* get_next_event: TRUE when peek() is due at current_time
NextEventDue(evs, current_time) ==
    /\ evs # <<>>
    /\ Head(evs).timestamp <= current_time

\* get_next_event returning peek() and leaving it queued
get_next_eventPeeking(evs, current_time) ==
    IF NextEventDue(evs, current_time)
    THEN [events |-> evs, result |-> <<Head(evs)>>]
    ELSE [events |-> evs, result |-> <<>>]

\* get_next_event: the events left in the heap and the returned Option
get_next_event(evs, current_time) ==
    IF NextEventDue(evs, current_time)
    THEN [events |-> Tail(evs), result |-> <<Head(evs)>>]
    ELSE [events |-> evs, result |-> <<>>]

(***************************************************************************)
(* coordinator.rs: send_current_data.  failAt is the ordinal of the        *)
(* send_data call that fails in this invocation (0: none fails).           *)
(* Result: the events left in the scheduler, the events passed to          *)
(* send_data in order, and whether Ok(()) was returned.                    *)
(***************************************************************************)
RECURSIVE SendLoop(_, _, _, _, _)
SendLoop(evs, snd, current_time, failAt, out) ==
    IF ~NextEventDue(evs, current_time)
    THEN [events |-> evs, handed |-> out, ok |-> TRUE]
    ELSE IF snd = None
    THEN SendLoop(Tail(evs), snd, current_time, failAt, out)
    ELSE IF failAt = Len(out) + 1
    THEN [events |-> Tail(evs), handed |-> Append(out, Head(evs)), ok |-> FALSE]
    ELSE SendLoop(Tail(evs), snd, current_time, failAt, Append(out, Head(evs)))

send_current_data(evs, snd, current_time, failAt) ==
    SendLoop(evs, snd, current_time, failAt, <<>>)

\* DataCoordinator::new(): empty scheduler, no sender
DataCoordinatorNew == [events |-> <<>>, sender |-> None]

\* load_dataset: the body is a TODO that returns Ok(()) and loads nothing
load_dataset(coord, dataset_name) == coord

(***************************************************************************)
(* pcap-io: the record codec.  Files are sequences of bytes.  A u32 that   *)
(* needs all 32 bits (the CRC, the magic number) is kept as its four       *)
(* little-endian bytes.                                                    *)
(***************************************************************************)
HEADER_SIZE == 16
PACKET_HEADER_SIZE == 16
MAX_PACKET_SIZE == 31457280
MAJOR_VERSION == 2
MINOR_VERSION == 4
DEFAULT_TIMESTAMP_ACCURACY == 1
\* 0xD4C3B2A1, little-endian
PCAP_MAGIC_NUMBER == <<161, 178, 195, 212>>
\* 0xEDB88320, little-endian
CrcPolynomial == <<32, 131, 184, 237>>

RECURSIVE BitXor(_, _)
BitXor(a, b) ==
    IF a = 0 THEN b
    ELSE IF b = 0 THEN a
    ELSE ((a + b) % 2) + 2 * BitXor(a \div 2, b \div 2)

XorWord(w, v) == [i \in 1..4 |-> BitXor(w[i], v[i])]

\* crc >> 1
ShiftRight1(w) ==
    [i \in 1..4 |-> (w[i] \div 2) + (IF i < 4 THEN 128 * (w[i + 1] % 2) ELSE 0)]

CrcBit(w) ==
    IF w[1] % 2 = 1 THEN XorWord(ShiftRight1(w), CrcPolynomial)
    ELSE ShiftRight1(w)

RECURSIVE CrcBits(_, _)
CrcBits(w, n) == IF n = 0 THEN w ELSE CrcBits(CrcBit(w), n - 1)

\* the eight shift steps of lines 120-126 for each value of the low byte of
\* crc, the other bytes being 0
CrcTable == [b \in 0..255 |-> CrcBits(<<b, 0, 0, 0>>, 8)]

\* lines 119-127 for one byte: crc ^= byte, then the eight shift steps.  The
\* steps are linear over xor, so they act on the low byte through CrcTable
\* and shift the three upper bytes down by eight bits
CrcByte(w, byte) ==
    XorWord(CrcTable[BitXor(w[1], byte)], <<w[2], w[3], w[4], 0>>)

RECURSIVE CrcBytes(_, _)
CrcBytes(w, data) ==
    IF data = <<>> THEN w
    ELSE CrcBytes(CrcByte(w, Head(data)), Tail(data))

\* calculate_crc32: initial value 0xFFFFFFFF, result complemented
calculate_crc32(data) ==
    LET crc == CrcBytes(<<255, 255, 255, 255>>, data)
    IN [i \in 1..4 |-> 255 - crc[i]]

\* u32::to_le_bytes / u16::to_le_bytes for values below 2^31
LE32(n) == <<n % 256, (n \div 256) % 256, (n \div 65536) % 256,
             (n \div 16777216) % 256>>
LE16(n) == <<n % 256, (n \div 256) % 256>>
\* u32::from_le_bytes / u16::from_le_bytes of the bytes at offsets off+1..
FromLE32(b, off) ==
    b[off + 1] + 256 * b[off + 2] + 65536 * b[off + 3] + 16777216 * b[off + 4]
FromLE16(b, off) == b[off + 1] + 256 * b[off + 2]

\* PcapFileHeader::new(0).to_bytes()
FileHeaderBytes ==
    PCAP_MAGIC_NUMBER \o LE16(MAJOR_VERSION) \o LE16(MINOR_VERSION)
        \o LE32(0) \o LE32(DEFAULT_TIMESTAMP_ACCURACY)

\* PcapFileHeader::from_bytes followed by is_valid
FileHeaderValid(b) ==
    /\ SubSeq(b, 1, 4) = PCAP_MAGIC_NUMBER
    /\ FromLE16(b, 4) = MAJOR_VERSION
    /\ FromLE16(b, 6) = MINOR_VERSION

\* DataPacket::is_valid_size
is_valid_size(size) == size > 0 /\ size <= MAX_PACKET_SIZE

\* DataPacket::from_timestamp
from_timestamp(secs, nanos, data) ==
    [header |-> [timestamp_seconds |-> secs, timestamp_nanoseconds |-> nanos,
                 packet_length |-> Len(data),
                 checksum |-> calculate_crc32(data)],
     data |-> data]

\* DataPacket::is_valid
is_valid(p) ==
    /\ is_valid_size(Len(p.data))
    /\ calculate_crc32(p.data) = p.header.checksum

\* to_bytes losing the nanoseconds: the seconds are written in their place
PacketToBytesSecondsTwice(p) ==
    LE32(p.header.timestamp_seconds) \o LE32(p.header.timestamp_seconds)
        \o LE32(p.header.packet_length) \o p.header.checksum \o p.data

\* DataPacket::to_bytes
PacketToBytes(p) ==
    LE32(p.header.timestamp_seconds) \o LE32(p.header.timestamp_nanoseconds)
        \o LE32(p.header.packet_length) \o p.header.checksum \o p.data

\* DataPacket::get_timestamp_ns as <<seconds, nanoseconds>> (the product with
\* 10^9 is not formed); TsLess is the order of the u64 values
get_timestamp_ns(p) ==
    <<p.header.timestamp_seconds + (p.header.timestamp_nanoseconds \div 1000000000),
      p.header.timestamp_nanoseconds % 1000000000>>
TsLess(a, b) == a[1] < b[1] \/ (a[1] = b[1] /\ a[2] < b[2])

(***************************************************************************)
(* data/file_reader.rs: read_packet on the bytes of a file from position   *)
(* pos (bytes already consumed).  kind is "Some", "None" (end of file) or  *)
(* "Err"; error names the PcapError, CorruptedData being the error of a    *)
(* checksum that does not match.                                           *)
(***************************************************************************)
FrReadPacket(bytes, pos, enable_validation) ==
    LET remaining == Len(bytes) - pos
        len == FromLE32(bytes, pos + 8)
        data == SubSeq(bytes, pos + PACKET_HEADER_SIZE + 1,
                       pos + PACKET_HEADER_SIZE + len)
        checksum == SubSeq(bytes, pos + 13, pos + 16)
        header == [timestamp_seconds |-> FromLE32(bytes, pos),
                   timestamp_nanoseconds |-> FromLE32(bytes, pos + 4),
                   packet_length |-> len, checksum |-> checksum]
    IN IF remaining < PACKET_HEADER_SIZE
       THEN [kind |-> "None", pos |-> Len(bytes)]
       ELSE IF ~is_valid_size(len)
       THEN [kind |-> "Err", pos |-> pos + PACKET_HEADER_SIZE,
             error |-> "InvalidFormat"]
       ELSE IF remaining - PACKET_HEADER_SIZE < len
       THEN [kind |-> "Err", pos |-> Len(bytes), error |-> "Io"]
       ELSE IF enable_validation /\ calculate_crc32(data) # checksum
       THEN [kind |-> "Err", pos |-> pos + PACKET_HEADER_SIZE + len,
             error |-> "CorruptedData"]
       ELSE [kind |-> "Some", pos |-> pos + PACKET_HEADER_SIZE + len,
             packet |-> [header |-> header, data |-> data]]

\* PcapFileReader::open: TRUE when the file exists, holds a header and the
\* header is valid
FrOpenOk(dsk, path) ==
    /\ path \in DOMAIN dsk
    /\ Len(dsk[path]) >= HEADER_SIZE
    /\ FileHeaderValid(dsk[path])

\* every record a file reader returns from a file, read to its end
RECURSIVE FrReadAll(_, _)
FrReadAll(bytes, pos) ==
    LET r == FrReadPacket(bytes, pos, TRUE)
    IN IF r.kind = "Some" THEN <<r.packet>> \o FrReadAll(bytes, r.pos)
       ELSE <<>>

(***************************************************************************)
(* Initial states.                                                         *)
(***************************************************************************)
Datasets == {"d1", "d2"}

\* a mutex nobody holds (the holder of a mutex is <<"control">> or
\* <<"task", i>>); no control operation in progress
Free == <<>>
Idle == [op |-> None, pc |-> None, arg |-> <<>>]

EngineInit ==
    /\ status = "Stopped"
    /\ current_timestamp = 0
    /\ current_dataset = None
    /\ playback_speed = DefaultSpeed
    /\ timeline = <<>>
    /\ is_running = FALSE
    /\ tasks = <<>>
    /\ lastResult = None
    /\ stopLast = FALSE
    /\ ticks = 0
    /\ mutex = [state |-> Free, is_running |-> Free]
    /\ control = Idle

SchedIdle ==
    /\ events = <<>>
    /\ sender = None
    /\ phase = "idle"
    /\ lastSend = <<>>

EngineIdle == EngineInit /\ dataset_configs = {}

\* no sidecar, no index in memory, no index operation so far
IndexIdle ==
    /\ pidx_file = <<>>
    /\ pidx_index = <<>>
    /\ iResult = [op |-> "NotCalled", changes |-> 0]
    /\ query = <<>>

\* no dataset directory, no writer, no reader
DatasetIdle ==
    /\ disk = [f \in {} |-> <<>>]
    /\ now = 0
    /\ max_packets_per_file = 1
    /\ file_name_format = None
    /\ writer = <<>>
    /\ reader = <<>>
    /\ written = <<>>
    /\ wResult = "NotCalled"
    /\ batchUsed = FALSE
    /\ returned = <<>>
    /\ rResult = "NotCalled"
    /\ IndexIdle

(***************************************************************************)
(* engine.rs: control operations.  Each takes &mut self, and the command   *)
(* layer calls them under the AppState mutex, so they never overlap one    *)
(* another.  pause() and stop() hold the PlaybackState lock from their     *)
(* first statement to their return, and start() touches shared state only  *)
(* in its first block, so each is one step with respect to the tick loops. *)
(***************************************************************************)
HistoryOp(result, isStop) ==
    /\ lastResult' = result
    /\ stopLast' = isStop

\* start(): the dataset has no configuration; the status is already Playing
\* when the lookup fails with Err
StartErr(d) ==
    /\ d \notin dataset_configs
    /\ status' = "Playing"
    /\ current_dataset' = d
    /\ HistoryOp("Err", FALSE)
    /\ UNCHANGED <<current_timestamp, playback_speed, timeline, is_running,
                   tasks, dataset_configs, ticks, handed, schedVars,
                   dataVars, mutex, control>>

\* start() through start_playback_loop(): the coordinator is loaded, moved
\* into a newly spawned task and replaced by DataCoordinator::new()
StartOk(d) ==
    /\ d \in dataset_configs
    /\ Len(tasks) < MaxTasks
    /\ status' = "Playing"
    /\ current_dataset' = d
    /\ timeline' = <<TimelineControllerNew(StartTime, EndTime)>>
    /\ tasks' = Append(tasks, [pc |-> "init",
                               coord |-> load_dataset(DataCoordinatorNew, d)])
    /\ HistoryOp("Ok", FALSE)
    /\ UNCHANGED <<current_timestamp, playback_speed, is_running,
                   dataset_configs, ticks, handed, schedVars,
                   dataVars, mutex, control>>

Pause ==
    /\ status' = "Paused"
    /\ is_running' = FALSE
    /\ HistoryOp("Ok", FALSE)
    /\ UNCHANGED <<current_timestamp, current_dataset, playback_speed,
                   timeline, tasks, dataset_configs, ticks, handed, schedVars,
                   dataVars, mutex, control>>

Stop ==
    /\ status' = "Stopped"
    /\ current_timestamp' = 0
    /\ is_running' = FALSE
    /\ timeline' = IF timeline = <<>> THEN <<>>
                   ELSE <<TimelineReset(timeline[1])>>
    /\ HistoryOp("Ok", TRUE)
    /\ UNCHANGED <<current_dataset, playback_speed, tasks, dataset_configs,
                   ticks, handed, schedVars,
                   dataVars, mutex, control>>

SeekTo(timestamp) ==
    /\ IF timeline = <<>>
       THEN UNCHANGED <<timeline, current_timestamp>>
       ELSE /\ timeline' = <<set_current_time(timeline[1], timestamp)>>
            /\ current_timestamp' = timestamp
    /\ HistoryOp("Ok", FALSE)
    /\ UNCHANGED <<status, current_dataset, playback_speed, is_running, tasks,
                   dataset_configs, ticks, handed, schedVars,
                   dataVars, mutex, control>>

SetSpeed(speed) ==
    /\ IF timeline = <<>>
       THEN UNCHANGED <<timeline, playback_speed>>
       ELSE /\ timeline' = <<set_playback_speed(timeline[1], speed)>>
            /\ playback_speed' = speed
    /\ HistoryOp("Ok", FALSE)
    /\ UNCHANGED <<status, current_timestamp, current_dataset, is_running,
                   tasks, dataset_configs, ticks, handed, schedVars,
                   dataVars, mutex, control>>

(***************************************************************************)
(* engine.rs: the task spawned by start_playback_loop, one step per        *)
(* acquisition of a shared lock.  send_current_data works on the task's    *)
(* own coordinator only and is taken together with the status check that   *)
(* precedes it.                                                            *)
(***************************************************************************)
SetPc(i, pc) == [tasks EXCEPT ![i].pc = pc]

\* line 148: *is_running.lock().await = true
TaskInit(i) ==
    /\ tasks[i].pc = "init"
    /\ is_running' = TRUE
    /\ tasks' = SetPc(i, "check")
    /\ UNCHANGED <<status, current_timestamp, current_dataset, playback_speed,
                   timeline, dataset_configs, lastResult, stopLast, ticks,
                   handed, schedVars,
                   dataVars, mutex, control>>

\* line 150: while *is_running.lock().await
TaskCheck(i) ==
    /\ tasks[i].pc = "check"
    /\ tasks' = SetPc(i, IF is_running THEN "tick" ELSE "exit")
    /\ UNCHANGED <<status, current_timestamp, current_dataset, playback_speed,
                   timeline, is_running, dataset_configs, lastResult, stopLast,
                   ticks, handed, schedVars,
                   dataVars, mutex, control>>

\* lines 151-166: wait for the interval, read the state, send the due data
TaskTick(i) ==
    /\ tasks[i].pc = "tick"
    /\ IF status # "Playing"
       THEN /\ tasks' = SetPc(i, "check")
            /\ UNCHANGED handed
       ELSE \E failAt \in 0..Len(tasks[i].coord.events) :
              LET r == send_current_data(tasks[i].coord.events,
                                         tasks[i].coord.sender,
                                         current_timestamp, failAt)
              IN /\ failAt > 0 => ~r.ok
                 /\ handed' = handed \o r.handed
                 /\ tasks' = [tasks EXCEPT ![i].pc = "update",
                                           ![i].coord.events = r.events]
    /\ UNCHANGED <<status, current_timestamp, current_dataset, playback_speed,
                   timeline, is_running, dataset_configs, lastResult, stopLast,
                   ticks, schedVars,
                   dataVars, mutex, control>>

\* lines 169-175: advance the progress, finish at 1000
TaskUpdate(i) ==
    /\ tasks[i].pc = "update"
    /\ ticks' = ticks + 1
    /\ IF current_timestamp + 1 >= EndTime
       THEN /\ current_timestamp' = EndTime
            /\ status' = "Stopped"
            /\ tasks' = SetPc(i, "exit")
       ELSE /\ current_timestamp' = current_timestamp + 1
            /\ status' = status
            /\ tasks' = SetPc(i, "check")
    /\ UNCHANGED <<current_dataset, playback_speed, timeline, is_running,
                   dataset_configs, lastResult, stopLast, handed, schedVars,
                   dataVars, mutex, control>>

\* line 178: *is_running.lock().await = false
TaskExit(i) ==
    /\ tasks[i].pc = "exit"
    /\ is_running' = FALSE
    /\ tasks' = SetPc(i, "done")
    /\ UNCHANGED <<status, current_timestamp, current_dataset, playback_speed,
                   timeline, dataset_configs, lastResult, stopLast, ticks,
                   handed, schedVars,
                   dataVars, mutex, control>>

TaskIds == DOMAIN tasks

\* a task that is inside its while loop
LoopRunning(i) == tasks[i].pc \in {"check", "tick", "update"}
\* a task that has not finished
TaskAlive(i) == tasks[i].pc # "done"

(***************************************************************************)
(* Specification of the engine under control operations.  The inputs of    *)
(* seek_to and set_speed include values outside the timeline bounds and    *)
(* outside the speed range.  dataset_configs holds a configuration for d1  *)
(* and none for d2.                                                        *)
(***************************************************************************)
SeekInputs == {EndTime - 1, 2 * EndTime}
SpeedInputs == {2 * MaxSpeed}

Init ==
    /\ EngineInit
    /\ dataset_configs = {"d1"}
    /\ handed = <<>>
    /\ SchedIdle
    /\ DatasetIdle

TaskStep(i) ==
    \/ TaskInit(i)
    \/ TaskCheck(i)
    \/ TaskTick(i)
    \/ TaskUpdate(i)
    \/ TaskExit(i)

\* TaskUpdate within the bound on progress updates
TaskUpdateBounded(i) == ticks < MaxTicks /\ TaskUpdate(i)

TaskStepBounded(i) ==
    \/ TaskInit(i)
    \/ TaskCheck(i)
    \/ TaskTick(i)
    \/ TaskUpdateBounded(i)
    \/ TaskExit(i)

Next ==
    \/ \E d \in Datasets : StartErr(d)
    \/ \E d \in Datasets : StartOk(d)
    \/ Pause
    \/ Stop
    \/ \E t \in SeekInputs : SeekTo(t)
    \/ \E v \in SpeedInputs : SetSpeed(v)
    \/ \E i \in TaskIds : TaskInit(i)
    \/ \E i \in TaskIds : TaskCheck(i)
    \/ \E i \in TaskIds : TaskTick(i)
    \/ \E i \in TaskIds : TaskUpdateBounded(i)
    \/ \E i \in TaskIds : TaskExit(i)

Spec == Init /\ [][Next]_vars

\* the spawned tasks are scheduled by the tokio runtime and the interval
\* fires every 10 ms: a task step that stays enabled is eventually taken
FairSpec ==
    /\ Spec
    /\ \A i \in 1..MaxTasks : WF_vars(i \in TaskIds /\ TaskStepBounded(i))

(***************************************************************************)
(* Specification of one undisturbed run: a single start() and then only    *)
(* the steps of the spawned task.                                          *)
(***************************************************************************)
RunNext ==
    \/ \E d \in Datasets : lastResult = None /\ StartErr(d)
    \/ \E d \in Datasets : lastResult = None /\ StartOk(d)
    \/ \E i \in TaskIds : TaskInit(i)
    \/ \E i \in TaskIds : TaskCheck(i)
    \/ \E i \in TaskIds : TaskTick(i)
    \/ \E i \in TaskIds : TaskUpdate(i)
    \/ \E i \in TaskIds : TaskExit(i)

RunSpec == Init /\ [][RunNext]_vars

(***************************************************************************)
(* Specification of the engine with its locks.  Here a step is one         *)
(* acquisition of a tokio mutex, or the statements a thread runs while it  *)
(* holds what it has acquired, up to its next acquisition.  The control    *)
(* operations take &mut self and are called one at a time; each spawned    *)
(* task is a thread of its own, named by its index.  The coordinator of a  *)
(* task, its scheduler and its sender are referenced by that task alone,   *)
(* so try_lock at line 162 and the locks inside send_current_data never    *)
(* wait.                                                                   *)
(***************************************************************************)
ControlThread == <<"control">>
TaskThread(i) == <<"task", i>>
\* the operations called and their arguments; the values given to seek_to
\* and set_speed play no part in the locking
ControlOps ==
    {<<"start", <<d>>>> : d \in Datasets}
        \cup {<<"pause", <<>>>>, <<"stop", <<>>>>, <<"get_state", <<>>>>,
              <<"seek_to", <<EndTime - 1>>>>,
              <<"set_speed", <<DefaultSpeed>>>>}

\* what no step of this specification changes
LockFrame == UNCHANGED <<dataset_configs, handed, schedVars, dataVars>>

\* the operation in progress returns; this specification keeps no history
\* of the results
Return(result) ==
    /\ control' = Idle
    /\ UNCHANGED <<lastResult, stopLast>>

\* the operation in progress moves on to position pc
Goto(pc) ==
    /\ control' = [control EXCEPT !.pc = pc]
    /\ UNCHANGED <<lastResult, stopLast>>

\* a control operation is called and runs up to its first lock().await:
\* seek_to and set_speed return at once without a timeline, and change the
\* timeline before they take the state lock
ControlBegin(op, arg) ==
    /\ control.op = None
    /\ op = "start" => Len(tasks) < MaxTasks
    /\ IF op \in {"seek_to", "set_speed"} /\ timeline = <<>>
       THEN UNCHANGED <<control, timeline, lastResult, stopLast>>
       ELSE /\ control' = [op |-> op, pc |-> "lock_state", arg |-> arg]
            /\ timeline' =
                   IF op = "seek_to"
                   THEN <<set_current_time(timeline[1], arg[1])>>
                   ELSE IF op = "set_speed"
                   THEN <<set_playback_speed(timeline[1], arg[1])>>
                   ELSE timeline
            /\ UNCHANGED <<lastResult, stopLast>>
    /\ UNCHANGED <<status, current_timestamp, current_dataset, playback_speed,
                   is_running, tasks, ticks, mutex>>
    /\ LockFrame

\* self.state.lock().await of a control operation
ControlLockState ==
    /\ control.pc = "lock_state"
    /\ mutex.state = Free
    /\ mutex' = [mutex EXCEPT !.state = ControlThread]
    /\ Goto("state_held")
    /\ UNCHANGED <<status, current_timestamp, current_dataset, playback_speed,
                   timeline, is_running, tasks, ticks>>
    /\ LockFrame

\* what a control operation does under the state lock.  start, seek_to,
\* set_speed and get_state drop the guard; pause and stop keep it and go on
\* to self.is_running.lock().await.  start returns Err where the dataset has
\* no configuration.
ControlUnderState ==
    /\ control.pc = "state_held"
    /\ status' = CASE control.op = "start" -> "Playing"
                   [] control.op = "pause" -> "Paused"
                   [] control.op = "stop" -> "Stopped"
                   [] OTHER -> status
    /\ current_dataset' = IF control.op = "start" THEN control.arg[1]
                          ELSE current_dataset
    /\ current_timestamp' = CASE control.op = "stop" -> 0
                              [] control.op = "seek_to" -> control.arg[1]
                              [] OTHER -> current_timestamp
    /\ playback_speed' = IF control.op = "set_speed" THEN control.arg[1]
                         ELSE playback_speed
    /\ IF control.op \in {"pause", "stop"}
       THEN Goto("lock_is_running") /\ UNCHANGED mutex
       ELSE /\ mutex' = [mutex EXCEPT !.state = Free]
            /\ IF control.op # "start" THEN Return("Ok")
               ELSE IF control.arg[1] \in dataset_configs THEN Goto("spawn")
               ELSE Return("Err")
    /\ UNCHANGED <<timeline, is_running, tasks, ticks>>
    /\ LockFrame

\* self.is_running.lock().await of pause and stop, the state guard held
ControlLockIsRunning ==
    /\ control.pc = "lock_is_running"
    /\ mutex.is_running = Free
    /\ mutex' = [mutex EXCEPT !.is_running = ControlThread]
    /\ Goto("both_held")
    /\ UNCHANGED <<status, current_timestamp, current_dataset, playback_speed,
                   timeline, is_running, tasks, ticks>>
    /\ LockFrame

\* pause and stop under both locks, to their return, where both guards drop
ControlUnderBoth ==
    /\ control.pc = "both_held"
    /\ is_running' = FALSE
    /\ timeline' = IF control.op = "stop" /\ timeline # <<>>
                   THEN <<TimelineReset(timeline[1])>>
                   ELSE timeline
    /\ mutex' = [state |-> Free, is_running |-> Free]
    /\ Return("Ok")
    /\ UNCHANGED <<status, current_timestamp, current_dataset, playback_speed,
                   tasks, ticks>>
    /\ LockFrame

\* start from line 52 on: the timeline, start_playback_loop, tokio::spawn
ControlSpawn ==
    /\ control.pc = "spawn"
    /\ timeline' = <<TimelineControllerNew(StartTime, EndTime)>>
    /\ tasks' = Append(tasks,
                       [pc |-> "init", held |-> FALSE,
                        coord |-> load_dataset(DataCoordinatorNew,
                                               control.arg[1])])
    /\ Return("Ok")
    /\ UNCHANGED <<status, current_timestamp, current_dataset, playback_speed,
                   is_running, ticks, mutex>>
    /\ LockFrame

\* the mutex a task takes at each position of its loop: is_running at lines
\* 148, 150 and 178, the state at lines 153 and 169
TaskMutex(pc) == IF pc \in {"tick", "update"} THEN "state" ELSE "is_running"

\* task i after it has dropped its guard and moved to pc
Released(i, pc) == [tasks EXCEPT ![i].pc = pc, ![i].held = FALSE]

\* a lock().await of task i; the bound on progress updates stops a task
\* before it takes the lock of line 169
TaskLock(i) ==
    /\ tasks[i].pc # "done"
    /\ ~tasks[i].held
    /\ tasks[i].pc = "update" => ticks < MaxTicks
    /\ mutex[TaskMutex(tasks[i].pc)] = Free
    /\ mutex' = [mutex EXCEPT ![TaskMutex(tasks[i].pc)] = TaskThread(i)]
    /\ tasks' = [tasks EXCEPT ![i].held = TRUE]
    /\ UNCHANGED <<status, current_timestamp, current_dataset, playback_speed,
                   timeline, is_running, ticks, lastResult, stopLast, control>>
    /\ LockFrame

\* line 148 and line 178: the flag is written and the guard, a temporary of
\* the statement, is dropped
TaskSetRunning(i) ==
    /\ tasks[i].held
    /\ tasks[i].pc \in {"init", "exit"}
    /\ is_running' = (tasks[i].pc = "init")
    /\ mutex' = [mutex EXCEPT !.is_running = Free]
    /\ tasks' = Released(i, IF tasks[i].pc = "init" THEN "check" ELSE "done")
    /\ UNCHANGED <<status, current_timestamp, current_dataset, playback_speed,
                   timeline, ticks, lastResult, stopLast, control>>
    /\ LockFrame

\* the loop condition keeping its guard over the loop body
TaskReadRunningHolding(i) ==
    /\ tasks[i].held
    /\ tasks[i].pc = "check"
    /\ tasks' = Released(i, IF is_running THEN "tick" ELSE "exit")
    /\ UNCHANGED <<status, current_timestamp, current_dataset, playback_speed,
                   timeline, is_running, ticks, lastResult, stopLast, control,
                   mutex>>
    /\ LockFrame

\* line 150: the flag is read and the guard, a temporary of the loop
\* condition, is dropped before the body runs
TaskReadRunning(i) ==
    /\ tasks[i].held
    /\ tasks[i].pc = "check"
    /\ mutex' = [mutex EXCEPT !.is_running = Free]
    /\ tasks' = Released(i, IF is_running THEN "tick" ELSE "exit")
    /\ UNCHANGED <<status, current_timestamp, current_dataset, playback_speed,
                   timeline, is_running, ticks, lastResult, stopLast, control>>
    /\ LockFrame

\* lines 153-166: the state is read under its lock, the guard is dropped by
\* continue or by drop(state_guard), and the due data is sent
TaskReadState(i) ==
    /\ tasks[i].held
    /\ tasks[i].pc = "tick"
    /\ mutex' = [mutex EXCEPT !.state = Free]
    /\ IF status # "Playing"
       THEN /\ tasks' = Released(i, "check")
            /\ UNCHANGED handed
       ELSE \E r \in {send_current_data(tasks[i].coord.events,
                                        tasks[i].coord.sender,
                                        current_timestamp, 0)} :
               /\ handed' = handed \o r.handed
               /\ tasks' = [Released(i, "update") EXCEPT
                              ![i].coord.events = r.events]
    /\ UNCHANGED <<status, current_timestamp, current_dataset, playback_speed,
                   timeline, is_running, ticks, lastResult, stopLast, control,
                   dataset_configs, schedVars, dataVars>>

\* lines 169-175: the progress is advanced under the state lock; the guard
\* is dropped at the end of the loop body or by break
TaskWriteState(i) ==
    /\ tasks[i].held
    /\ tasks[i].pc = "update"
    /\ ticks' = ticks + 1
    /\ mutex' = [mutex EXCEPT !.state = Free]
    /\ IF current_timestamp + 1 >= EndTime
       THEN /\ current_timestamp' = EndTime
            /\ status' = "Stopped"
            /\ tasks' = Released(i, "exit")
       ELSE /\ current_timestamp' = current_timestamp + 1
            /\ status' = status
            /\ tasks' = Released(i, "check")
    /\ UNCHANGED <<current_dataset, playback_speed, timeline, is_running,
                   lastResult, stopLast, control>>
    /\ LockFrame

ControlStep ==
    \/ ControlLockState
    \/ ControlUnderState
    \/ ControlLockIsRunning
    \/ ControlUnderBoth
    \/ ControlSpawn

LockTaskStep(i) ==
    \/ TaskLock(i)
    \/ TaskSetRunning(i)
    \/ TaskReadRunning(i)
    \/ TaskReadState(i)
    \/ TaskWriteState(i)

LockNext ==
    \/ \E c \in ControlOps : ControlBegin(c[1], c[2])
    \/ ControlLockState
    \/ ControlUnderState
    \/ ControlLockIsRunning
    \/ ControlUnderBoth
    \/ ControlSpawn
    \/ \E i \in TaskIds : TaskLock(i)
    \/ \E i \in TaskIds : TaskSetRunning(i)
    \/ \E i \in TaskIds : TaskReadRunning(i)
    \/ \E i \in TaskIds : TaskReadState(i)
    \/ \E i \in TaskIds : TaskWriteState(i)

LockSpec == Init /\ [][LockNext]_vars

\* a tokio mutex is fair, it serves its waiters in the order of their
\* calls, and the runtime schedules every task that can run: a step that is
\* enabled again and again is eventually taken
FairLockSpec ==
    /\ LockSpec
    /\ SF_vars(ControlStep)
    /\ \A i \in 1..MaxTasks : SF_vars(i \in TaskIds /\ LockTaskStep(i))

(***************************************************************************)
(* Specification of the timeline controller as a component: a controller   *)
(* over [StartTime, EndTime] is sought, given a speed and advanced.  The    *)
(* history keeps an advance_time call as an Option: the controller before   *)
(* it, the delay and the returned flag.                                     *)
(***************************************************************************)
\* times offered to set_current_time, in and out of the range
TimeInputs == {0, 500, 995, 999, 1000, 2000}
\* speeds offered to set_playback_speed in tenths, in and out of the range
TimelineSpeeds == {0, 1, 7, 10, 15, 20, 41, 100, 150}
\* delays offered to advance_time
DeltaInputs == {0, 1, 5, 10, 30, 90}

TimelineInit ==
    /\ status = "Stopped"
    /\ current_timestamp = 0
    /\ current_dataset = None
    /\ playback_speed = DefaultSpeed
    /\ timeline = <<TimelineControllerNew(StartTime, EndTime)>>
    /\ is_running = FALSE
    /\ tasks = <<>>
    /\ dataset_configs = {}
    /\ lastResult = <<>>
    /\ stopLast = FALSE
    /\ ticks = 0
    /\ mutex = [state |-> Free, is_running |-> Free]
    /\ control = Idle
    /\ handed = <<>>
    /\ SchedIdle
    /\ DatasetIdle

\* a call on the controller that leaves it as tl with the history h
TimelineCall(tl, h) ==
    /\ timeline' = <<tl>>
    /\ lastResult' = h
    /\ UNCHANGED <<status, current_timestamp, current_dataset, playback_speed,
                   is_running, tasks, dataset_configs, stopLast, ticks,
                   handed, schedVars, dataVars, mutex, control>>

SetCurrentTime(time) ==
    /\ timeline # <<>>
    /\ TimelineCall(set_current_time(timeline[1], time), <<>>)

SetPlaybackSpeed(speed) ==
    /\ timeline # <<>>
    /\ TimelineCall(set_playback_speed(timeline[1], speed), <<>>)

AdvanceTime(delta_ms) ==
    /\ timeline # <<>>
    /\ \E r \in {advance_time(timeline[1], delta_ms)} :
          TimelineCall(r.tl, <<[op |-> "advance_time", before |-> timeline[1],
                                delta_ms |-> delta_ms, at_end |-> r.at_end]>>)

TimelineNext ==
    \/ \E time \in TimeInputs : SetCurrentTime(time)
    \/ \E speed \in TimelineSpeeds : SetPlaybackSpeed(speed)
    \/ \E delta_ms \in DeltaInputs : AdvanceTime(delta_ms)

TimelineSpec == TimelineInit /\ [][TimelineNext]_vars

(***************************************************************************)
(* Specification of the scheduler and coordinator as a component: events   *)
(* are queued with add_event, and taken with get_next_event by a direct     *)
(* caller of the scheduler, then the coordinator serves one run.  During    *)
(* a run the coordinator belongs to the tick loop alone (engine.rs:142),   *)
(* which calls nothing but send_current_data, so no event is added once    *)
(* the run has begun.  current_time is any value: the cursor moves forward *)
(* by ticks and in either direction by seek_to.                            *)
(***************************************************************************)
EventInputs == [timestamp : 0..MaxTime, data : {1, 2}]

SchedInit ==
    /\ EngineIdle
    /\ handed = <<>>
    /\ events = <<>>
    /\ sender \in {None, "Some"}
    /\ phase = "load"
    /\ lastSend = <<>>
    /\ DatasetIdle

\* EventScheduler::add_event
AddEvent(e) ==
    /\ phase = "load"
    /\ Len(events) < MaxEvents
    /\ \E i \in AddPositions(events, e) : events' = InsertAt(events, i, e)
    /\ UNCHANGED <<engineVars, dataVars, handed, sender, phase, lastSend>>

\* the history of the run starts empty
BeginRun ==
    /\ phase = "load"
    /\ phase' = "run"
    /\ lastSend' = <<>>
    /\ UNCHANGED <<engineVars, dataVars, handed, events, sender>>

\* EventScheduler::get_next_event called on the scheduler itself; the
\* history keeps the call: its time, the events queued before it, the
\* returned Option and the events queued after it
GetNextEvent(current_time) ==
    /\ phase = "load"
    /\ \E r \in {get_next_event(events, current_time)} :
          /\ events' = r.events
          /\ lastSend' = <<[current_time |-> current_time, ok |-> TRUE,
                            sent |-> 0, retried |-> FALSE,
                            queued |-> events, next_event |-> r.result,
                            left |-> r.events]>>
    /\ UNCHANGED <<engineVars, dataVars, handed, sender, phase>>

\* the call returns r: what it leaves queued, what it passed to send_data,
\* and its record in the history.  retried tells that the call before it
\* failed and left an event queued that was due at its time.
Sent(current_time, r) ==
    /\ events' = r.events
    /\ handed' = handed \o r.handed
    /\ lastSend' = <<[current_time |-> current_time, ok |-> r.ok,
                      sent |-> Len(r.handed),
                      retried |-> /\ lastSend # <<>>
                                  /\ ~lastSend[1].ok
                                  /\ NextEventDue(events,
                                                  lastSend[1].current_time)]>>

\* DataCoordinator::send_current_data, all send_data calls succeeding
SendCurrentData(current_time) ==
    /\ phase = "run"
    /\ Sent(current_time, send_current_data(events, sender, current_time, 0))
    /\ UNCHANGED <<engineVars, dataVars, sender, phase>>

\* DataCoordinator::send_current_data, the failAt-th send_data call failing
SendCurrentDataErr(current_time, failAt) ==
    /\ phase = "run"
    /\ ~send_current_data(events, sender, current_time, failAt).ok
    /\ Sent(current_time,
            send_current_data(events, sender, current_time, failAt))
    /\ UNCHANGED <<engineVars, dataVars, sender, phase>>

SchedNext ==
    \/ \E e \in EventInputs : AddEvent(e)
    \/ \E t \in 0..MaxTime : GetNextEvent(t)
    \/ BeginRun
    \/ \E t \in 0..MaxTime : SendCurrentData(t)
    \/ \E t \in 0..MaxTime, k \in 1..MaxEvents : SendCurrentDataErr(t, k)

SchedSpec == SchedInit /\ [][SchedNext]_vars

(***************************************************************************)
(* pcap-io: the dataset writer.  File names are sequences of character     *)
(* codes, so that the reader's sort by name is the byte-wise order of the  *)
(* names.  The clock is read once for every generated name and is strictly *)
(* increasing; its date and second stay fixed, only the sub-second part    *)
(* (in units of 100 ns) moves.                                             *)
(***************************************************************************)
MaxPackets == 4
MaxBatch == 3
MaxPerFile == 2

DEFAULT_FILE_NAME_FORMAT == "yyMMdd_HHmmss_fffffff"
\* ".pcap"
PcapExtension == <<46, 112, 99, 97, 112>>
\* "261103_120000_": the clock's date and time of day
ClockPrefix == <<50, 54, 49, 49, 48, 51, 95, 49, 50, 48, 48, 48, 48, 95>>
\* "1793707200": the same instant in seconds since the epoch
ClockEpochSeconds == <<49, 55, 57, 51, 55, 48, 55, 50, 48, 48>>
\* "data_"
DataPrefix == <<100, 97, 116, 97, 95>>
Underscore == 95
DigitZero == 48

RECURSIVE Pow10(_)
Pow10(k) == IF k = 0 THEN 1 ELSE 10 * Pow10(k - 1)

\* format!("{:0width}", n) for n below 10^width
Digits(n, width) ==
    [i \in 1..width |-> DigitZero + ((n \div Pow10(width - i)) % 10)]

\* Path::file_stem of a name that ends in ".pcap"
file_stem(path) == SubSeq(path, 1, Len(path) - Len(PcapExtension))

\* the byte-wise order of two names
RECURSIVE NameLess(_, _)
NameLess(a, b) ==
    IF a = <<>> THEN b # <<>>
    ELSE IF b = <<>> THEN FALSE
    ELSE IF a[1] # b[1] THEN a[1] < b[1]
    ELSE NameLess(Tail(a), Tail(b))

\* overwrite the bytes of a file from offset off on, extending it at the end
WriteAt(bytes, off, new) ==
    SubSeq(bytes, 1, off) \o new \o SubSeq(bytes, off + Len(new) + 1, Len(bytes))

\* the state a writer call works on and its result so far; open_fails tells
\* whether the file system refuses to open a new file during the call
WriterState ==
    [w |-> writer[1], disk |-> disk, now |-> now, result |-> "Ok",
     open_fails |-> FALSE]
Fail(st, err) == [st EXCEPT !.result = err]

(***************************************************************************)
(* data/file_writer.rs: PcapFileWriter, held in Writer.current_writer.     *)
(***************************************************************************)
FwClosed == [open |-> FALSE, file_path |-> <<>>, packet_count |-> 0,
             total_size |-> 0]

\* PcapFileWriter::create: the file is opened without truncation and the
\* header is written at its start
FwCreate(st, path) ==
    [st EXCEPT
       !.disk = [f \in DOMAIN st.disk \cup {path} |->
                   IF f # path THEN st.disk[f]
                   ELSE IF path \in DOMAIN st.disk
                        THEN WriteAt(st.disk[path], 0, FileHeaderBytes)
                        ELSE FileHeaderBytes],
       !.w.current_writer = <<[open |-> TRUE, file_path |-> <<path>>,
                               packet_count |-> 0,
                               total_size |-> HEADER_SIZE]>>]

\* PcapFileWriter::close
FwClose(st) ==
    IF st.w.current_writer = <<>> THEN st
    ELSE [st EXCEPT !.w.current_writer = <<FwClosed>>]

\* PcapFileWriter::generate_new_file_path: "{stem}_{nanos}.{ext}"
generate_new_file_path(current_path, clock) ==
    file_stem(current_path) \o <<Underscore>> \o ClockEpochSeconds
        \o Digits(clock, 7) \o <<DigitZero, DigitZero>> \o PcapExtension

\* PcapFileWriter::create_new_file
FwCreateNewFile(st) ==
    LET fw == st.w.current_writer[1]
    IN IF fw.file_path = <<>> THEN st
       ELSE IF st.open_fails THEN Fail(FwClose(st), "Err")
       ELSE FwCreate([FwClose(st) EXCEPT !.now = @ + 1],
                     generate_new_file_path(fw.file_path[1], st.now))

\* PcapFileWriter::write_packet without the rotation of lines 84-86
FwWritePacketNoRotation(st, p) ==
    LET fw == st.w.current_writer[1]
        bytes == PacketToBytes(p)
    IN IF ~fw.open THEN Fail(st, "Err")
       ELSE [st EXCEPT
               !.disk[fw.file_path[1]] = WriteAt(@, fw.total_size, bytes),
               !.w.current_writer =
                   <<[fw EXCEPT !.packet_count = @ + 1,
                                !.total_size = @ + Len(bytes)]>>]

\* PcapFileWriter::write_packet
FwWritePacket(st, p) ==
    LET s1 == IF st.w.current_writer[1].packet_count >= max_packets_per_file
              THEN FwCreateNewFile(st)
              ELSE st
        fw == s1.w.current_writer[1]
        bytes == PacketToBytes(p)
    IN IF ~fw.open THEN Fail(s1, "Err")
       ELSE [s1 EXCEPT
               !.disk[fw.file_path[1]] = WriteAt(@, fw.total_size, bytes),
               !.w.current_writer =
                   <<[fw EXCEPT !.packet_count = @ + 1,
                                !.total_size = @ + Len(bytes)]>>]

(***************************************************************************)
(* api/writer.rs: Writer.                                                  *)
(***************************************************************************)
WriterNew ==
    [current_writer |-> <<>>, current_file_packet_count |-> 0,
     file_sequence |-> 0, created_files |-> <<>>, total_packet_count |-> 0,
     first_timestamp |-> <<>>, last_timestamp |-> <<>>,
     is_finalized |-> FALSE]

generate_next_filename(st) ==
    IF file_name_format = DEFAULT_FILE_NAME_FORMAT
    THEN ClockPrefix \o Digits(st.now, 7) \o PcapExtension
    ELSE DataPrefix \o Digits(st.w.file_sequence, 4) \o PcapExtension

\* Writer::create_new_file; where PcapFileWriter::create fails to open the
\* file, the call returns after the current file is closed
create_new_file(st) ==
    LET s1 == FwClose(st)
        filename == generate_next_filename(s1)
        s2 == FwCreate([s1 EXCEPT !.now = @ + 1], filename)
    IN IF st.open_fails THEN Fail(s1, "Err")
       ELSE [s2 EXCEPT !.w.current_file_packet_count = 0,
                       !.w.file_sequence = @ + 1,
                       !.w.created_files = Append(@, filename)]

\* ensure_writer_ready rotating one record late
ensure_writer_readyLate(st) ==
    LET s1 == IF st.w.current_writer = <<>> THEN create_new_file(st) ELSE st
    IN IF s1.result = "Ok"
          /\ s1.w.current_file_packet_count > max_packets_per_file
       THEN create_new_file(s1)
       ELSE s1

ensure_writer_ready(st) ==
    LET s1 == IF st.w.current_writer = <<>> THEN create_new_file(st) ELSE st
    IN IF s1.result = "Ok"
          /\ s1.w.current_file_packet_count >= max_packets_per_file
       THEN create_new_file(s1)
       ELSE s1

\* the first_timestamp / last_timestamp update for one timestamp
TrackTimestamps(w, ts) ==
    [w EXCEPT
       !.first_timestamp = IF @ = <<>> \/ TsLess(ts, @[1]) THEN <<ts>> ELSE @,
       !.last_timestamp = IF @ = <<>> \/ TsLess(@[1], ts) THEN <<ts>> ELSE @]

update_statistics(w, p) ==
    [TrackTimestamps(w, get_timestamp_ns(p)) EXCEPT
       !.total_packet_count = @ + 1,
       !.current_file_packet_count = @ + 1]

RECURSIVE TrackAll(_, _)
TrackAll(w, packets) ==
    IF packets = <<>> THEN w
    ELSE TrackAll(TrackTimestamps(w, get_timestamp_ns(Head(packets))),
                  Tail(packets))

\* tracking every timestamp of the batch gives the same first and last as
\* tracking its minimum and its maximum
update_statistics_batch(w, packets) ==
    IF packets = <<>> THEN w
    ELSE [TrackAll(w, packets) EXCEPT
            !.total_packet_count = @ + Len(packets),
            !.current_file_packet_count = @ + Len(packets)]

\* usize::saturating_sub
saturating_sub(a, b) == IF a >= b THEN a - b ELSE 0

calculate_files_needed(w, packet_count) ==
    IF packet_count = 0 THEN 0
    ELSE LET remaining_capacity ==
                 saturating_sub(max_packets_per_file,
                                w.current_file_packet_count)
         IN IF packet_count <= remaining_capacity THEN 0
            ELSE 1 + ((packet_count - remaining_capacity - 1)
                          \div max_packets_per_file)

\* write_packet counting the record before the file is made ready
write_packetCountingFirst(st, p) ==
    IF st.w.is_finalized THEN Fail(st, "InvalidState")
    ELSE IF ~is_valid(p) THEN Fail(st, "CorruptedData")
    ELSE LET s1 == ensure_writer_ready([st EXCEPT
                                          !.w = update_statistics(@, p)])
         IN IF s1.result # "Ok" THEN s1 ELSE FwWritePacket(s1, p)

\* Writer::write_packet
write_packet(st, p) ==
    IF st.w.is_finalized THEN Fail(st, "InvalidState")
    ELSE IF ~is_valid(p) THEN Fail(st, "CorruptedData")
    ELSE LET s1 == ensure_writer_ready(st)
             s2 == IF s1.result # "Ok" THEN s1 ELSE FwWritePacket(s1, p)
         IN IF s2.result # "Ok" THEN s2
            ELSE [s2 EXCEPT !.w = update_statistics(@, p)]

\* lines 421-423: for _ in 0..files_needed { create_new_file() }
RECURSIVE CreateFiles(_, _)
CreateFiles(st, files_needed) ==
    IF files_needed = 0 \/ st.result # "Ok" THEN st
    ELSE CreateFiles(create_new_file(st), files_needed - 1)

\* lines 429-441: the loop over the batch
RECURSIVE WriteLoop(_, _)
WriteLoop(st, packets) ==
    IF packets = <<>> \/ st.result # "Ok" THEN st
    ELSE LET s1 == FwWritePacket(st, Head(packets))
         IN IF s1.result # "Ok" THEN s1
            ELSE IF s1.w.current_file_packet_count >= max_packets_per_file
            THEN WriteLoop(create_new_file(s1), Tail(packets))
            ELSE WriteLoop(s1, Tail(packets))

\* Writer::write_packets
write_packets(st, packets) ==
    IF packets = <<>> THEN st
    ELSE IF \E i \in 1..Len(packets) : ~is_valid(packets[i])
    THEN Fail(st, "CorruptedData")
    ELSE LET s1 == CreateFiles(st, calculate_files_needed(st.w, Len(packets)))
             s2 == WriteLoop(ensure_writer_ready(s1), packets)
         IN IF s2.result # "Ok" THEN s2
            ELSE [s2 EXCEPT !.w = update_statistics_batch(@, packets)]

\* finalize refusing a finalized writer as write_packet does
finalizeRefusingSecond(st) ==
    IF st.w.is_finalized THEN Fail(st, "InvalidState")
    ELSE [FwClose(st) EXCEPT !.w.is_finalized = TRUE]

\* Writer::finalize; the sidecar index it generates is not a record file
finalize(st) ==
    IF st.w.is_finalized THEN st
    ELSE [FwClose(st) EXCEPT !.w.is_finalized = TRUE]

(***************************************************************************)
(* api/reader.rs: PcapReader.  File indices count from 0 as in the code.   *)
(***************************************************************************)
RECURSIVE SortNames(_)
SortNames(S) ==
    IF S = {} THEN <<>>
    ELSE LET first == CHOOSE a \in S : \A b \in S \ {a} : NameLess(a, b)
         IN <<first>> \o SortNames(S \ {first})

\* scan_pcap_files: every file of the directory is a ".pcap" file
scan_pcap_files(dsk) == SortNames(DOMAIN dsk)

\* PcapReader::new_with_config
PcapReaderNew(dsk, enable_validation) ==
    [pcap_files |-> scan_pcap_files(dsk), current_file_index |-> 0,
     current_reader |-> <<>>, current_position |-> 0,
     first_timestamp |-> <<>>, last_timestamp |-> <<>>,
     enable_validation |-> enable_validation]

open_file(rd, dsk, file_index) ==
    IF file_index >= Len(rd.pcap_files) THEN [rd |-> rd, ok |-> FALSE]
    ELSE IF ~FrOpenOk(dsk, rd.pcap_files[file_index + 1])
    THEN [rd |-> [rd EXCEPT !.current_reader = <<>>], ok |-> FALSE]
    ELSE [rd |-> [rd EXCEPT
                    !.current_reader =
                        <<[file_path |-> rd.pcap_files[file_index + 1],
                           pos |-> HEADER_SIZE]>>,
                    !.current_file_index = file_index],
          ok |-> TRUE]

\* switch_to_next_file giving up one file early
switch_to_next_fileEarly(rd, dsk) ==
    IF rd.current_file_index + 2 >= Len(rd.pcap_files)
    THEN [rd |-> rd, ok |-> TRUE, switched |-> FALSE]
    ELSE LET o == open_file(rd, dsk, rd.current_file_index + 1)
         IN [rd |-> o.rd, ok |-> o.ok, switched |-> o.ok]

switch_to_next_file(rd, dsk) ==
    IF rd.current_file_index + 1 >= Len(rd.pcap_files)
    THEN [rd |-> rd, ok |-> TRUE, switched |-> FALSE]
    ELSE LET o == open_file(rd, dsk, rd.current_file_index + 1)
         IN [rd |-> o.rd, ok |-> o.ok, switched |-> o.ok]

ensure_current_file_open(rd, dsk) ==
    IF rd.current_reader = <<>> /\ rd.pcap_files # <<>>
    THEN open_file(rd, dsk, 0)
    ELSE [rd |-> rd, ok |-> TRUE]

\* lines 476-512: the loop of read_packet
RECURSIVE ReadLoop(_, _)
ReadLoop(rd, dsk) ==
    IF rd.current_reader = <<>> THEN [rd |-> rd, kind |-> "None"]
    ELSE LET cur == rd.current_reader[1]
             r == FrReadPacket(dsk[cur.file_path], cur.pos,
                               rd.enable_validation)
             moved == [rd EXCEPT !.current_reader[1].pos = r.pos]
         IN IF r.kind = "Some"
            THEN [rd |-> [TrackTimestamps(moved, get_timestamp_ns(r.packet))
                            EXCEPT !.current_position = @ + 1],
                  kind |-> "Some", packet |-> r.packet]
            ELSE IF r.kind = "Err" THEN [rd |-> moved, kind |-> "Err"]
            ELSE LET s == switch_to_next_file(moved, dsk)
                 IN IF ~s.ok THEN [rd |-> s.rd, kind |-> "Err"]
                    ELSE IF ~s.switched THEN [rd |-> s.rd, kind |-> "None"]
                    ELSE ReadLoop(s.rd, dsk)

\* PcapReader::read_packet
read_packet(rd, dsk) ==
    LET o == ensure_current_file_open(rd, dsk)
    IN IF ~o.ok THEN [rd |-> o.rd, kind |-> "Err"]
       ELSE ReadLoop(o.rd, dsk)

(***************************************************************************)
(* index/types.rs, index/reader.rs, business/index/writer.rs: the sidecar  *)
(* index of a dataset directory.                                           *)
(*                                                                         *)
(* Timestamps in nanoseconds are u64 in the code.  The records of this     *)
(* model have timestamps below 2^31 ns, so the values are formed exactly;  *)
(* U64_MAX stands for u64::MAX, the value the scans start their minimum    *)
(* from: larger than every record timestamp and never an operand of        *)
(* arithmetic.  A subtraction whose u64 result would be negative is        *)
(* reported as an overflow, which the build turns into a panic (overflow   *)
(* checks on) or a wrapped value (overflow checks off).                    *)
(*                                                                         *)
(* calculate_file_hash is SHA-256 of the file's bytes; the model takes the *)
(* bytes themselves as the hash, so two files have the same hash exactly   *)
(* when they have the same content.                                        *)
(***************************************************************************)
U64_MAX == 2147483647
NanosPerSecond == 1000000000

\* DataPacket::get_timestamp_ns as one number
timestamp_ns(p) ==
    get_timestamp_ns(p)[1] * NanosPerSecond + get_timestamp_ns(p)[2]

calculate_file_hash(dsk, path) == dsk[path]

\* PidxIndex::new without description and created_time
PidxIndexNew ==
    [start_timestamp |-> 0, end_timestamp |-> 0, total_packets |-> 0,
     total_duration |-> 0, files |-> <<>>,
     timestamp_index |-> [t \in {} |-> <<>>]]

\* a value computed once and used under a name: With(v, LAMBDA x : e) is
\* LET x == v IN e
With(v, Body(_)) == Body(v)

RECURSIVE SeqMin(_)
SeqMin(s) == IF Len(s) = 1 THEN s[1] ELSE Min(s[1], SeqMin(Tail(s)))
RECURSIVE SeqMax(_)
SeqMax(s) == IF Len(s) = 1 THEN s[1] ELSE Max(s[1], SeqMax(Tail(s)))
RECURSIVE SeqSum(_)
SeqSum(s) == IF s = <<>> THEN 0 ELSE s[1] + SeqSum(Tail(s))

\* PidxIndex::update_time_range
update_time_range(index) ==
    IF index.files = <<>>
    THEN [index EXCEPT !.start_timestamp = 0, !.end_timestamp = 0,
                       !.total_duration = 0]
    ELSE LET start == SeqMin([i \in 1..Len(index.files) |->
                                  index.files[i].start_timestamp])
             end == SeqMax([i \in 1..Len(index.files) |->
                                index.files[i].end_timestamp])
         IN [index EXCEPT !.start_timestamp = start, !.end_timestamp = end,
                          !.total_duration =
                              IF end > start THEN end - start ELSE 0]

\* update_total_packets taking the count of the first file only
update_total_packetsFirstFile(index) ==
    [index EXCEPT !.total_packets =
        IF index.files = <<>> THEN 0 ELSE index.files[1].packet_count]

\* PidxIndex::update_total_packets
update_total_packets(index) ==
    [index EXCEPT !.total_packets =
        SeqSum([i \in 1..Len(index.files) |-> index.files[i].packet_count])]

\* the PacketIndexEntry values of a list of file indexes, in file order
RECURSIVE AllEntries(_)
AllEntries(files) ==
    IF files = <<>> THEN <<>>
    ELSE files[1].data_packets \o AllEntries(Tail(files))

\* a HashMap<u64, PacketIndexEntry> filled by inserting the entries in
\* order: an insert under a key that is present replaces the value
InsertAll(entries) ==
    [t \in {entries[i].timestamp_ns : i \in 1..Len(entries)} |->
        LET last == CHOOSE i \in 1..Len(entries) :
                        /\ entries[i].timestamp_ns = t
                        /\ \A j \in (i + 1)..Len(entries) :
                               entries[j].timestamp_ns # t
        IN entries[last]]

\* PidxIndex::build_timestamp_index
build_timestamp_index(index) ==
    [index EXCEPT !.timestamp_index = InsertAll(AllEntries(index.files))]

\* the scan moving on by the payload alone after each record, so that the
\* entries after the first carry offsets short by the headers before them
RECURSIVE IndexScanPayloadStep(_, _, _)
IndexScanPayloadStep(bytes, pos, acc) ==
    With(FrReadPacket(bytes, pos, TRUE), LAMBDA r :
       IF r.kind = "Err" THEN [acc EXCEPT !.ok = FALSE]
       ELSE IF r.kind = "None" THEN acc
       ELSE With(timestamp_ns(r.packet), LAMBDA ts :
               IndexScanPayloadStep(bytes, r.pos,
                 [acc EXCEPT
                    !.start_timestamp = IF ts < @ THEN ts ELSE @,
                    !.end_timestamp = IF ts > @ THEN ts ELSE @,
                    !.data_packets =
                        Append(@, [timestamp_ns |-> ts,
                                   byte_offset |-> acc.current_position,
                                   packet_size |->
                                       r.packet.header.packet_length]),
                    !.packet_count = @ + 1,
                    !.current_position =
                        @ + r.packet.header.packet_length])))

\* PidxWriter::index_pcap_file, lines 162-186: the scan of the records
RECURSIVE IndexScan(_, _, _)
IndexScan(bytes, pos, acc) ==
    With(FrReadPacket(bytes, pos, TRUE), LAMBDA r :
       IF r.kind = "Err" THEN [acc EXCEPT !.ok = FALSE]
       ELSE IF r.kind = "None" THEN acc
       ELSE With(timestamp_ns(r.packet), LAMBDA ts :
               IndexScan(bytes, r.pos,
                 [acc EXCEPT
                    !.start_timestamp = IF ts < @ THEN ts ELSE @,
                    !.end_timestamp = IF ts > @ THEN ts ELSE @,
                    !.data_packets =
                        Append(@, [timestamp_ns |-> ts,
                                   byte_offset |-> acc.current_position,
                                   packet_size |->
                                       r.packet.header.packet_length]),
                    !.packet_count = @ + 1,
                    !.current_position =
                        @ + PACKET_HEADER_SIZE
                          + r.packet.header.packet_length])))

\* PidxWriter::index_pcap_file; ok is FALSE where the code returns Err
index_pcap_file(dsk, path) ==
    IF ~FrOpenOk(dsk, path) THEN [ok |-> FALSE]
    ELSE With(IndexScan(dsk[path], HEADER_SIZE,
                    [ok |-> TRUE, start_timestamp |-> U64_MAX,
                     end_timestamp |-> 0, data_packets |-> <<>>,
                     packet_count |-> 0, current_position |-> HEADER_SIZE]),
           LAMBDA s :
            IF ~s.ok THEN [ok |-> FALSE]
            ELSE [ok |-> TRUE,
                  file |-> [file_name |-> path,
                            file_hash |-> calculate_file_hash(dsk, path),
                            file_size |-> Len(dsk[path]),
                            packet_count |-> s.packet_count,
                            start_timestamp |-> s.start_timestamp,
                            end_timestamp |-> s.end_timestamp,
                            data_packets |-> s.data_packets]])

\* generate_index, lines 78-101: the files that could be indexed, in order
RECURSIVE IndexFiles(_, _)
IndexFiles(dsk, paths) ==
    IF paths = <<>> THEN <<>>
    ELSE With(index_pcap_file(dsk, paths[1]), LAMBDA r :
            (IF r.ok THEN <<r.file>> ELSE <<>>)
                \o IndexFiles(dsk, Tail(paths)))

\* serialize_to_xml / deserialize_from_xml: timestamp_index is
\* #[serde(skip)], so the file holds every other field and a loaded index
\* starts from an empty map, which deserialize_from_xml then fills
serialize_to_xml(index) ==
    [start_timestamp |-> index.start_timestamp,
     end_timestamp |-> index.end_timestamp,
     total_packets |-> index.total_packets,
     total_duration |-> index.total_duration,
     files |-> index.files]
deserialize_from_xml(xml) ==
    build_timestamp_index(
        [start_timestamp |-> xml.start_timestamp,
         end_timestamp |-> xml.end_timestamp,
         total_packets |-> xml.total_packets,
         total_duration |-> xml.total_duration,
         files |-> xml.files,
         timestamp_index |-> [t \in {} |-> <<>>]])

\* the content of a sidecar that does not deserialize
Unparsable == [garbage |-> TRUE]

\* PidxReader::validate_pidx_format and PidxReader::load_index on a sidecar
\* that exists
validate_pidx_format(pf) == "files" \in DOMAIN pf[1]
load_index(pf) == build_timestamp_index(deserialize_from_xml(pf[1]))

\* business/index/writer.rs PidxWriter::generate_index on the directory.
\* result is "Err" when there is no record file; otherwise the index is
\* persisted, and overflow tells whether the subtraction in the final log
\* statement (lines 128-129) overflows.
PidxWriterGenerateIndex(dsk, pf) ==
    With(scan_pcap_files(dsk), LAMBDA pcap_files :
      IF pcap_files = <<>>
      THEN [result |-> "Err", pidx_file |-> pf, overflow |-> FALSE]
      ELSE With(IndexFiles(dsk, pcap_files), LAMBDA files :
           With([update_total_packets(update_time_range(
                     [PidxIndexNew EXCEPT !.files = files]))
                   EXCEPT !.timestamp_index = InsertAll(AllEntries(files))],
                LAMBDA index :
             [result |-> "Ok", pidx_file |-> <<serialize_to_xml(index)>>,
              index |-> index,
              overflow |-> index.end_timestamp < index.start_timestamp])))

\* PidxReader::needs_rebuild
needs_rebuild(index, dsk) ==
    \/ Len(scan_pcap_files(dsk)) # Len(index.files)
    \/ \E i \in 1..Len(index.files) :
           \/ index.files[i].file_name \notin DOMAIN dsk
           \/ calculate_file_hash(dsk, index.files[i].file_name)
                  # index.files[i].file_hash

\* PidxReader::verify_index_validity
verify_index_validity(index, dsk) ==
    \A i \in 1..Len(index.files) :
        /\ index.files[i].file_name \in DOMAIN dsk
        /\ calculate_file_hash(dsk, index.files[i].file_name)
               = index.files[i].file_hash

\* PcapReader::is_index_valid
is_index_valid(index, dsk) ==
    IF scan_pcap_files(dsk) = <<>> THEN index.files = <<>>
    ELSE IF index.files = <<>> THEN FALSE
    ELSE IF Len(scan_pcap_files(dsk)) # Len(index.files) THEN FALSE
    ELSE ~needs_rebuild(index, dsk)

\* PcapReader::generate_index_for_dataset
generate_index_for_dataset(dsk, pf) ==
    With(PidxWriterGenerateIndex(dsk, pf), LAMBDA g :
       IF g.result = "Ok"
       THEN [pidx_file |-> g.pidx_file, index |-> <<load_index(g.pidx_file)>>,
             rebuilt |-> TRUE, overflow |-> g.overflow]
       ELSE [pidx_file |-> pf, index |-> <<>>, rebuilt |-> TRUE,
             overflow |-> FALSE])

\* PcapReader::ensure_valid_index; rebuilt tells whether the call went on
\* to generate_index_for_dataset
ensure_valid_index(dsk, pf) ==
    IF /\ pf # <<>>
       /\ validate_pidx_format(pf)
       /\ is_index_valid(load_index(pf), dsk)
    THEN [pidx_file |-> pf, index |-> <<load_index(pf)>>,
          rebuilt |-> FALSE, overflow |-> FALSE]
    ELSE generate_index_for_dataset(dsk, pf)

\* business/index/manager.rs IndexManager::generate_index: as
\* PidxWriter::generate_index, except that a directory without record files
\* gets an empty index
IndexManagerGenerateIndex(dsk, pf) ==
    IF scan_pcap_files(dsk) = <<>>
    THEN [result |-> "Ok", pidx_file |-> <<serialize_to_xml(PidxIndexNew)>>,
          index |-> PidxIndexNew, overflow |-> FALSE]
    ELSE PidxWriterGenerateIndex(dsk, pf)

(***************************************************************************)
(* src/pcap/reader.rs, src/pidx.rs, src/pidx/writer.rs, src/types/pidx.rs, *)
(* src/pcap/multi_reader.rs: the index of the application.  Its file       *)
(* reader does not reject a record whose checksum does not match, and its  *)
(* index entries carry the file name.                                      *)
(***************************************************************************)
APP_MAX_PACKET_LENGTH == 10485760

\* PcapReader::new: read_file_header succeeds
AppOpenOk(dsk, path) ==
    /\ path \in DOMAIN dsk
    /\ Len(dsk[path]) >= HEADER_SIZE
    /\ SubSeq(dsk[path], 1, 4) = PCAP_MAGIC_NUMBER
    /\ FromLE16(dsk[path], 4) = MAJOR_VERSION
    /\ FromLE16(dsk[path], 6) = MINOR_VERSION

\* PcapReader::read_next_packet from position pos
AppReadPacket(bytes, pos) ==
    LET remaining == Len(bytes) - pos
        len == FromLE32(bytes, pos + 8)
    IN IF pos >= Len(bytes) \/ remaining < PACKET_HEADER_SIZE
       THEN [kind |-> "None"]
       ELSE IF len > APP_MAX_PACKET_LENGTH THEN [kind |-> "None"]
       ELSE IF remaining - PACKET_HEADER_SIZE < len THEN [kind |-> "Err"]
       ELSE [kind |-> "Some", pos |-> pos + PACKET_HEADER_SIZE + len,
             timestamp_ns |-> FromLE32(bytes, pos) * NanosPerSecond
                                  + FromLE32(bytes, pos + 4),
             size |-> len,
             data |-> SubSeq(bytes, pos + PACKET_HEADER_SIZE + 1,
                             pos + PACKET_HEADER_SIZE + len)]

\* PcapReader::seek_to_byte_position followed by read_next_packet, as
\* MultiPcapReader::read_packet_from_entry calls them on the entry's file
read_packet_from_entry(dsk, file_name, byte_offset) ==
    IF ~AppOpenOk(dsk, file_name) THEN [kind |-> "Err"]
    ELSE IF byte_offset < HEADER_SIZE \/ byte_offset >= Len(dsk[file_name])
    THEN [kind |-> "Err"]
    ELSE AppReadPacket(dsk[file_name], byte_offset)

\* index_pcap_file of src/pidx.rs and src/pidx/writer.rs: the scan
RECURSIVE AppIndexScan(_, _, _, _)
AppIndexScan(bytes, pos, file_name, acc) ==
    With(AppReadPacket(bytes, pos), LAMBDA r :
       IF r.kind = "Err" THEN [acc EXCEPT !.ok = FALSE]
       ELSE IF r.kind = "None" THEN acc
       ELSE AppIndexScan(bytes, r.pos, file_name,
              [acc EXCEPT
                 !.start_timestamp =
                     IF r.timestamp_ns < @ THEN r.timestamp_ns ELSE @,
                 !.end_timestamp =
                     IF r.timestamp_ns > @ THEN r.timestamp_ns ELSE @,
                 !.data_packets =
                     Append(@, [timestamp_ns |-> r.timestamp_ns,
                                file_name |-> file_name,
                                byte_offset |-> acc.current_position,
                                packet_size |-> r.size]),
                 !.packet_count = @ + 1,
                 !.current_position = @ + PACKET_HEADER_SIZE + r.size]))

\* index_pcap_file of src/pidx.rs and src/pidx/writer.rs (the field packets
\* is named data_packets as in the library)
AppIndexPcapFile(dsk, path) ==
    IF ~AppOpenOk(dsk, path) THEN [ok |-> FALSE]
    ELSE With(AppIndexScan(dsk[path], HEADER_SIZE, path,
                    [ok |-> TRUE, start_timestamp |-> U64_MAX,
                     end_timestamp |-> 0, data_packets |-> <<>>,
                     packet_count |-> 0, current_position |-> HEADER_SIZE]),
           LAMBDA s :
            IF ~s.ok THEN [ok |-> FALSE]
            ELSE [ok |-> TRUE,
                  file |-> [file_name |-> path,
                            file_hash |-> calculate_file_hash(dsk, path),
                            file_size |-> Len(dsk[path]),
                            packet_count |-> s.packet_count,
                            start_timestamp |-> s.start_timestamp,
                            end_timestamp |-> s.end_timestamp,
                            data_packets |-> s.data_packets]])

RECURSIVE AppIndexFiles(_, _)
AppIndexFiles(dsk, paths) ==
    IF paths = <<>> THEN <<>>
    ELSE With(AppIndexPcapFile(dsk, paths[1]), LAMBDA r :
            (IF r.ok THEN <<r.file>> ELSE <<>>)
                \o AppIndexFiles(dsk, Tail(paths)))

\* src/pidx.rs PidxManager::generate_index.  The index is returned, not
\* saved.  total_duration is end - start in u64: where no indexed file has a
\* record, start is u64::MAX and end is 0, the subtraction overflows, and
\* the wrapped difference is 1.
PidxManagerGenerateIndex(dsk) ==
    With(scan_pcap_files(dsk), LAMBDA pcap_files :
      IF pcap_files = <<>> THEN [result |-> "Err", overflow |-> FALSE]
      ELSE
        With(AppIndexFiles(dsk, pcap_files), LAMBDA files :
        With(SeqMin(<<U64_MAX>> \o [i \in 1..Len(files) |->
                                       files[i].start_timestamp]),
             LAMBDA start :
        With(SeqMax(<<0>> \o [i \in 1..Len(files) |->
                                 files[i].end_timestamp]),
             LAMBDA end :
          [result |-> "Ok",
           index |-> build_timestamp_index(
                     [start_timestamp |-> start, end_timestamp |-> end,
                      total_packets |->
                          SeqSum([i \in 1..Len(files) |->
                                     files[i].packet_count]),
                      total_duration |->
                          IF end >= start THEN end - start ELSE 1,
                      files |-> files,
                      timestamp_index |-> [t \in {} |-> <<>>]]),
           overflow |-> end < start]))))

\* src/pidx/writer.rs PidxWriter::rebuild_index; existing_index is an Option
rebuild_index(dsk, existing_index) ==
    LET index == IF existing_index = <<>> THEN PidxIndexNew
                 ELSE existing_index[1]
    IN update_total_packets(update_time_range(
           [index EXCEPT !.files = AppIndexFiles(dsk, scan_pcap_files(dsk))]))

\* src/pidx.rs PidxManager::verify_index_validity
PidxManagerVerifyIndexValidity(index, dsk) ==
    \A i \in 1..Len(index.files) :
        /\ index.files[i].file_name \in DOMAIN dsk
        /\ calculate_file_hash(dsk, index.files[i].file_name)
               = index.files[i].file_hash

(***************************************************************************)
(* Queries on an index.  A result is an Option (find) or a sequence        *)
(* (range).  Where the code iterates over HashMap::values(), whose order   *)
(* is unspecified, the operator gives the set of results that the possible *)
(* orders produce.                                                         *)
(***************************************************************************)
AbsDiff(a, b) == IF a >= b THEN a - b ELSE b - a

\* index/types.rs PidxIndex::find_packet_by_timestamp
find_packet_by_timestamp(index, timestamp) ==
    LET entries == AllEntries(index.files)
        hits == {i \in 1..Len(entries) : entries[i].timestamp_ns = timestamp}
    IN IF hits = {} THEN <<>>
       ELSE <<entries[CHOOSE i \in hits : \A j \in hits : i <= j]>>

\* the first entry of a sequence at which the loop's strict comparison
\* diff < min_diff last succeeds: the first entry of least distance
FirstClosest(entries, timestamp) ==
    IF entries = <<>> THEN <<>>
    ELSE <<entries[CHOOSE i \in 1..Len(entries) :
               /\ \A j \in 1..Len(entries) :
                      AbsDiff(entries[i].timestamp_ns, timestamp)
                          <= AbsDiff(entries[j].timestamp_ns, timestamp)
               /\ \A j \in 1..(i - 1) :
                      AbsDiff(entries[j].timestamp_ns, timestamp)
                          > AbsDiff(entries[i].timestamp_ns, timestamp)]>>

\* lines 84-88: the file indexes whose time range holds the timestamp
RECURSIVE FilesInRange(_, _)
FilesInRange(files, timestamp) ==
    IF files = <<>> THEN <<>>
    ELSE (IF timestamp < files[1].start_timestamp
               \/ timestamp > files[1].end_timestamp
          THEN <<>> ELSE <<files[1]>>)
             \o FilesInRange(Tail(files), timestamp)

\* src/pcap/multi_reader.rs MultiPcapReader::find_packet_by_timestamp
MultiReaderFind(index, timestamp) ==
    FirstClosest(AllEntries(FilesInRange(index.files, timestamp)), timestamp)

\* the values of a map
Values(map) == {map[k] : k \in DOMAIN map}

\* src/pidx.rs PidxIndex::find_packet_by_timestamp: the possible results
PidxIndexFind(index, target_timestamp) ==
    IF target_timestamp \in DOMAIN index.timestamp_index
    THEN {<<index.timestamp_index[target_timestamp]>>}
    ELSE IF DOMAIN index.timestamp_index = {} THEN {<<>>}
    ELSE {<<e>> : e \in
            {v \in Values(index.timestamp_index) :
                \A u \in Values(index.timestamp_index) :
                    AbsDiff(v.timestamp_ns, target_timestamp)
                        <= AbsDiff(u.timestamp_ns, target_timestamp)}}

\* the entries of a sequence within [start_ns, end_ns], in order
RECURSIVE InRangeEntries(_, _, _)
InRangeEntries(entries, start_ns, end_ns) ==
    IF entries = <<>> THEN <<>>
    ELSE (IF entries[1].timestamp_ns >= start_ns
               /\ entries[1].timestamp_ns <= end_ns
          THEN <<entries[1]>> ELSE <<>>)
             \o InRangeEntries(Tail(entries), start_ns, end_ns)

\* sort_by_key(|p| p.timestamp_ns): a stable sort, by insertion
RECURSIVE SortByTimestamp(_)
SortByTimestamp(entries) ==
    IF entries = <<>> THEN <<>>
    ELSE LET sorted == SortByTimestamp(SubSeq(entries, 1, Len(entries) - 1))
             last == entries[Len(entries)]
             before == {i \in 1..Len(sorted) :
                           sorted[i].timestamp_ns <= last.timestamp_ns}
         IN SubSeq(sorted, 1, Cardinality(before)) \o <<last>>
                \o SubSeq(sorted, Cardinality(before) + 1, Len(sorted))

\* index/types.rs PidxIndex::get_packets_in_range
get_packets_in_range(index, start_ns, end_ns) ==
    SortByTimestamp(InRangeEntries(AllEntries(index.files), start_ns, end_ns))

\* the sequences that list every element of a finite set once
Orders(S) ==
    {q \in [1..Cardinality(S) -> S] :
        \A i, j \in 1..Cardinality(S) : i # j => q[i] # q[j]}

\* src/pidx.rs PidxIndex::get_packets_in_range: the possible results
PidxIndexRange(index, start_time, end_time) ==
    Orders({v \in Values(index.timestamp_index) :
               v.timestamp_ns >= start_time /\ v.timestamp_ns <= end_time})

(***************************************************************************)
(* src/multi_pcap_reader.rs and src/pcap/multi_reader.rs: the two          *)
(* multi-file readers of the application.  reader_cache is a HashMap keyed *)
(* by file name: its keys are a set, and keys().next() is any of them.     *)
(* recent is history: the cached names in the order of their last use, the *)
(* least recently used first.                                              *)
(***************************************************************************)
OfMultiPcapReader == "multi_pcap_reader"
OfPcapMultiReader == "pcap::multi_reader"

DEFAULT_MAX_CACHE_SIZE == 5

\* MultiPcapReader::new of either module
MultiPcapReaderNew(module) ==
    [module |-> module, reader_cache |-> {},
     max_cache_size |-> DEFAULT_MAX_CACHE_SIZE, current_timestamp |-> 0,
     recent |-> <<>>]

\* the sequence s without the elements of the set S
RECURSIVE Except(_, _)
Except(s, S) ==
    IF s = <<>> THEN <<>>
    ELSE (IF s[1] \in S THEN <<>> ELSE <<s[1]>>) \o Except(Tail(s), S)

\* the reader after file_name was used, the names in gone having left the
\* cache
Used(rd, file_name, gone) ==
    [rd EXCEPT
       !.reader_cache = (@ \ gone) \cup {file_name},
       !.recent = Append(Except(@, gone \cup {file_name}), file_name)]

\* get_or_create_reader: the possible readers after the call.  A full cache
\* loses any one reader in multi_pcap_reader.rs and every reader in
\* pcap/multi_reader.rs; the files of the directory open without error.
get_or_create_reader(rd, file_name) ==
    IF file_name \in rd.reader_cache THEN {Used(rd, file_name, {})}
    ELSE IF Cardinality(rd.reader_cache) >= rd.max_cache_size
    THEN IF rd.module = OfMultiPcapReader
         THEN IF rd.reader_cache = {} THEN {Used(rd, file_name, {})}
              ELSE {Used(rd, file_name, {oldest_key}) :
                       oldest_key \in rd.reader_cache}
         ELSE {Used(rd, file_name, rd.reader_cache)}
    ELSE {Used(rd, file_name, {})}

\* set_cache_size of multi_pcap_reader.rs: readers are removed, any of
\* them, until the cache fits
set_cache_size(rd, size) ==
    {[rd EXCEPT !.max_cache_size = size,
                !.reader_cache = kept,
                !.recent = Except(@, rd.reader_cache \ kept)] :
        kept \in {k \in SUBSET rd.reader_cache :
                     Cardinality(k) = Min(Cardinality(rd.reader_cache), size)}}

\* clear_cache
clear_cache(rd) == [rd EXCEPT !.reader_cache = {}, !.recent = <<>>]

\* the entry read_packet_at_time looks up: PidxIndex::find_packet_by_timestamp
\* in multi_pcap_reader.rs, the reader's own search in pcap/multi_reader.rs
EntryAtTime(rd, index, timestamp) ==
    IF rd.module = OfMultiPcapReader THEN PidxIndexFind(index, timestamp)
    ELSE {MultiReaderFind(index, timestamp)}

\* the entry read_next_packet goes to: the one the map holds under the least
\* key after current_timestamp in multi_pcap_reader.rs (find_next_timestamp),
\* the first entry of least timestamp after it in pcap/multi_reader.rs
NextEntry(rd, index) ==
    LET entries == AllEntries(index.files)
        later == {i \in 1..Len(entries) :
                     entries[i].timestamp_ns > rd.current_timestamp}
        first == CHOOSE i \in later :
                     /\ \A j \in later :
                            entries[i].timestamp_ns <= entries[j].timestamp_ns
                     /\ \A j \in later :
                            j < i => entries[j].timestamp_ns
                                         > entries[i].timestamp_ns
    IN IF later = {} THEN <<>>
       ELSE IF rd.module = OfMultiPcapReader
       THEN <<index.timestamp_index[entries[first].timestamp_ns]>>
       ELSE <<entries[first]>>

(***************************************************************************)
(* Specification of a dataset: a Writer on a new dataset directory writes  *)
(* records one at a time and in batches and is finalized; after that a     *)
(* PcapReader is opened on the directory and reads it.                     *)
(***************************************************************************)
ValidPackets == {from_timestamp(1, 500, <<7>>), from_timestamp(2, 0, <<8, 9>>)}
\* packets built field by field: a checksum that does not match the payload,
\* and an empty payload
InvalidPackets ==
    {[from_timestamp(3, 0, <<7>>) EXCEPT !.header.checksum = <<0, 0, 0, 0>>],
     [from_timestamp(3, 0, <<7>>) EXCEPT !.header.packet_length = 0,
                                         !.data = <<>>]}
PacketInputs == ValidPackets \cup InvalidPackets

RECURSIVE SeqsUpTo(_, _)
SeqsUpTo(S, n) ==
    IF n = 0 THEN {<<>>}
    ELSE LET shorter == SeqsUpTo(S, n - 1)
         IN shorter \cup {Append(q, x) : q \in shorter, x \in S}

BatchInputs ==
    SeqsUpTo(ValidPackets, MaxBatch)
        \cup {<<v, i>> : v \in ValidPackets, i \in InvalidPackets}

DatasetInit ==
    /\ EngineIdle
    /\ handed = <<>>
    /\ SchedIdle
    /\ disk = [f \in {} |-> <<>>]
    /\ now = 0
    /\ max_packets_per_file \in 1..MaxPerFile
    /\ file_name_format \in {DEFAULT_FILE_NAME_FORMAT, "data"}
    /\ writer = <<WriterNew>>
    /\ reader = <<>>
    /\ written = <<>>
    /\ wResult = "NotCalled"
    /\ batchUsed = FALSE
    /\ returned = <<>>
    /\ rResult = "NotCalled"
    /\ IndexIdle

\* the effect of a writer call that ends in state st
WriterCall(st, packets) ==
    /\ writer' = <<st.w>>
    /\ disk' = st.disk
    /\ now' = st.now
    /\ wResult' = st.result
    /\ written' = IF st.result = "Ok" THEN written \o packets ELSE written
    /\ UNCHANGED <<engineVars, handed, schedVars, max_packets_per_file,
                   file_name_format, reader, returned, rResult, pidx_index,
                   iResult, query>>

\* a panic ends the process that holds the writer
WriterLive == writer # <<>> /\ wResult # "Panic"

WritePacket(p) ==
    /\ WriterLive
    /\ Len(written) < MaxPackets
    /\ WriterCall(write_packet(WriterState, p), <<p>>)
    /\ UNCHANGED <<batchUsed, pidx_file>>

\* Writer::write_packet while no new file can be opened
WritePacketOpenFails(p) ==
    /\ WriterLive
    /\ Len(written) < MaxPackets
    /\ WriterCall(write_packet([WriterState EXCEPT !.open_fails = TRUE], p),
                  <<p>>)
    /\ UNCHANGED <<batchUsed, pidx_file>>

WritePackets(packets) ==
    /\ WriterLive
    /\ Len(written) + Len(packets) <= MaxPackets
    /\ WriterCall(write_packets(WriterState, packets), packets)
    /\ batchUsed' = TRUE
    /\ UNCHANGED pidx_file

\* Writer::finalize with Writer::generate_index (enable_index_cache has its
\* default, true): the sidecar is written after the current file is closed
\* and before is_finalized is set.  PidxWriter::generate_index cannot fail
\* here, because created_files is not empty; where its log statement
\* overflows, both outcomes are possible.
Finalize ==
    /\ WriterLive
    /\ \E st \in {finalize(WriterState)} :
       \E g \in {PidxWriterGenerateIndex(st.disk, pidx_file)} :
       \E gen \in {~writer[1].is_finalized /\ st.w.created_files # <<>>} :
       \E panic \in {FALSE} \cup {gen /\ g.overflow} :
              /\ pidx_file' = IF gen THEN g.pidx_file ELSE pidx_file
              /\ WriterCall(IF panic
                            THEN [st EXCEPT !.w.is_finalized = FALSE,
                                            !.result = "Panic"]
                            ELSE st, <<>>)
    /\ UNCHANGED batchUsed

\* PcapReader::new_with_config on the finalized dataset; the writer has been
\* dropped by then
\* PcapReader::new_with_config calls ensure_valid_index before it builds the
\* reader; where the log statement of the index generation overflows, both
\* outcomes are possible, and after a panic there is no reader
OpenReader(enable_validation) ==
    /\ writer # <<>>
    /\ writer[1].is_finalized \/ wResult = "Panic"
    /\ reader = <<>>
    /\ \E e \in {ensure_valid_index(disk, pidx_file)} :
          /\ pidx_file' = e.pidx_file
          /\ \E panic \in {FALSE} \cup {e.overflow} :
                 IF panic
                 THEN /\ rResult' = "Panic"
                      /\ UNCHANGED <<reader, writer, pidx_index>>
                 ELSE /\ reader' = <<PcapReaderNew(disk, enable_validation)>>
                      /\ writer' = <<>>
                      /\ pidx_index' = e.index
                      /\ UNCHANGED rResult
    /\ UNCHANGED <<engineVars, handed, schedVars, disk, now,
                   max_packets_per_file, file_name_format, written, wResult,
                   batchUsed, returned, iResult, query>>

ReadPacket ==
    /\ reader # <<>>
    /\ LET r == read_packet(reader[1], disk)
       IN /\ reader' = <<r.rd>>
          /\ rResult' = r.kind
          /\ returned' = IF r.kind = "Some" THEN Append(returned, r.packet)
                         ELSE returned
    /\ UNCHANGED <<engineVars, handed, schedVars, disk, now,
                   max_packets_per_file, file_name_format, writer, written,
                   wResult, batchUsed, indexVars>>

DatasetNext ==
    \/ \E p \in PacketInputs : WritePacket(p)
    \/ \E p \in PacketInputs : WritePacketOpenFails(p)
    \/ \E packets \in BatchInputs : WritePackets(packets)
    \/ Finalize
    \/ \E v \in BOOLEAN : OpenReader(v)
    \/ ReadPacket

DatasetSpec == DatasetInit /\ [][DatasetNext]_vars

(***************************************************************************)
(* Specification of the index of a dataset directory.  The directory       *)
(* holds up to two record files, each one of: a header only, one record,   *)
(* two records, a record followed by a record whose checksum does not      *)
(* match.  The sidecar is absent or unparsable at first.  The index        *)
(* operations of the library and of the application run on the directory   *)
(* in any order, and between them record files are added, replaced or      *)
(* removed and the sidecar is damaged, up to MaxChanges times.             *)
(***************************************************************************)
MaxChanges == 1

\* "a.pcap", "b.pcap"
IndexFileNames == {<<97>> \o PcapExtension, <<98>> \o PcapExtension}

RECURSIVE PacketsToBytes(_)
PacketsToBytes(packets) ==
    IF packets = <<>> THEN <<>>
    ELSE PacketToBytes(packets[1]) \o PacketsToBytes(Tail(packets))

RecordFile(packets) == FileHeaderBytes \o PacketsToBytes(packets)

Record1 == from_timestamp(1, 500, <<7>>)
Record2 == from_timestamp(2, 0, <<8, 9>>)
DamagedRecord ==
    [from_timestamp(2, 100, <<7>>) EXCEPT !.header.checksum = <<0, 0, 0, 0>>]

IndexContents ==
    {RecordFile(<<>>), RecordFile(<<Record1>>),
     RecordFile(<<Record1, Record2>>),
     RecordFile(<<Record1, DamagedRecord>>)}

Directories ==
    UNION {[names -> IndexContents] : names \in SUBSET IndexFileNames}

IndexInit ==
    /\ EngineIdle
    /\ handed = <<>>
    /\ SchedIdle
    /\ disk \in Directories
    /\ now = 0
    /\ max_packets_per_file = 1
    /\ file_name_format = None
    /\ writer = <<>>
    /\ reader = <<>>
    /\ written = <<>>
    /\ wResult = "NotCalled"
    /\ batchUsed = FALSE
    /\ returned = <<>>
    /\ rResult = "NotCalled"
    /\ pidx_file \in {<<>>, <<Unparsable>>}
    /\ pidx_index = <<>>
    /\ iResult = [op |-> "NotCalled", changes |-> 0]
    /\ query = <<>>

\* what no index operation touches
IndexFrame ==
    UNCHANGED <<engineVars, handed, schedVars, now, max_packets_per_file,
                file_name_format, writer, reader, written, wResult,
                batchUsed, returned, rResult>>

\* an index operation or a change of the directory: the result of the last
\* query is out of date
IndexStep == query' = <<>> /\ IndexFrame

\* PcapReader::ensure_valid_index, as PcapReader::new_with_config calls it.
\* again tells that the previous operation on the directory was
\* ensure_valid_index too.
EnsureValidIndex ==
    /\ \E e \in {ensure_valid_index(disk, pidx_file)} :
       \E panic \in {FALSE} \cup {e.overflow} :
              /\ pidx_file' = e.pidx_file
              /\ pidx_index' = IF panic THEN <<>> ELSE e.index
              /\ iResult' = [op |-> "ensure_valid_index",
                             result |-> IF panic THEN "Panic" ELSE "Ok",
                             rebuilt |-> e.rebuilt,
                             again |-> iResult.op = "ensure_valid_index",
                             changes |-> iResult.changes]
    /\ UNCHANGED disk
    /\ IndexStep

\* the effect of a generate_index that persists: g is its outcome
Generated(op, g) ==
    \E panic \in {FALSE} \cup {g.overflow} :
        /\ pidx_file' = g.pidx_file
        /\ pidx_index' = IF g.result = "Ok" THEN <<g.index>> ELSE <<>>
        /\ iResult' = [op |-> op,
                       result |-> IF panic THEN "Panic" ELSE g.result,
                       changes |-> iResult.changes]
        /\ UNCHANGED disk
        /\ IndexStep

PidxWriterGenerate ==
    Generated("PidxWriter::generate_index",
              PidxWriterGenerateIndex(disk, pidx_file))

IndexManagerGenerate ==
    Generated("IndexManager::generate_index",
              IndexManagerGenerateIndex(disk, pidx_file))

PidxManagerGenerate ==
    \E g \in {PidxManagerGenerateIndex(disk)} :
       Generated("PidxManager::generate_index",
                 [result |-> g.result, pidx_file |-> pidx_file,
                  index |-> IF g.result = "Ok" THEN g.index ELSE PidxIndexNew,
                  overflow |-> g.overflow])

\* PidxReader::load_index on the sidecar
LoadIndex ==
    /\ pidx_file # <<>>
    /\ pidx_index' = IF validate_pidx_format(pidx_file)
                     THEN <<load_index(pidx_file)>> ELSE <<>>
    /\ iResult' = [op |-> "load_index",
                   result |-> IF validate_pidx_format(pidx_file)
                              THEN "Ok" ELSE "Err",
                   changes |-> iResult.changes]
    /\ UNCHANGED <<disk, pidx_file>>
    /\ IndexStep

\* src/pidx/writer.rs rebuild_index without an index and with the index held
\* in memory
RebuildIndex(existing_index) ==
    /\ pidx_index' = <<rebuild_index(disk, existing_index)>>
    /\ iResult' = [op |-> "rebuild_index", result |-> "Ok",
                   changes |-> iResult.changes]
    /\ UNCHANGED <<disk, pidx_file>>
    /\ IndexStep

Changed ==
    /\ iResult.changes < MaxChanges
    /\ iResult' = [op |-> "changed", changes |-> iResult.changes + 1]
    /\ UNCHANGED pidx_index
    /\ IndexStep

\* a record file is added to the directory or replaced
PutFile(name, content) ==
    /\ name \in DOMAIN disk => disk[name] # content
    /\ disk' = [f \in DOMAIN disk \cup {name} |->
                   IF f = name THEN content ELSE disk[f]]
    /\ UNCHANGED pidx_file
    /\ Changed

RemoveFile(name) ==
    /\ name \in DOMAIN disk
    /\ disk' = [f \in DOMAIN disk \ {name} |-> disk[f]]
    /\ UNCHANGED pidx_file
    /\ Changed

DamageSidecar ==
    /\ pidx_file # <<>>
    /\ validate_pidx_format(pidx_file)
    /\ pidx_file' = <<Unparsable>>
    /\ UNCHANGED disk
    /\ Changed

\* the validity checks on the index held in memory: PidxReader::needs_rebuild
\* and PidxManager::verify_index_validity
CheckValidity ==
    /\ pidx_index # <<>>
    /\ query' = <<[op |-> "validity",
                   needs_rebuild |-> needs_rebuild(pidx_index[1], disk),
                   verify_index_validity |->
                       PidxManagerVerifyIndexValidity(pidx_index[1], disk)]>>
    /\ UNCHANGED <<disk, pidx_file, pidx_index, iResult>>
    /\ IndexFrame

IndexNext ==
    \/ EnsureValidIndex
    \/ PidxWriterGenerate
    \/ IndexManagerGenerate
    \/ PidxManagerGenerate
    \/ LoadIndex
    \/ \E existing_index \in {<<>>, pidx_index} : RebuildIndex(existing_index)
    \/ \E name \in IndexFileNames, content \in IndexContents :
           PutFile(name, content)
    \/ \E name \in IndexFileNames : RemoveFile(name)
    \/ DamageSidecar
    \/ CheckValidity

IndexSpec == IndexInit /\ [][IndexNext]_vars

(***************************************************************************)
(* Specification of the queries.  An index is built by the library or by   *)
(* the application over a directory of up to two well-formed record files, *)
(* among them files whose records share a timestamp; then the find and     *)
(* range operations are applied to it.                                     *)
(***************************************************************************)
\* a record with the timestamp of Record1
Record1Again == from_timestamp(1, 500, <<9>>)

QueryContents ==
    {RecordFile(<<Record1>>), RecordFile(<<Record2>>),
     RecordFile(<<Record1, Record2>>), RecordFile(<<Record1, Record1Again>>)}

QueryDirectories ==
    UNION {[names -> QueryContents] : names \in SUBSET IndexFileNames}

\* before the first record, the records' timestamps, between them, after
QueryTimes == {0, 1000000500, 1400000000, 2000000000, 2100000000}

QueryInit ==
    /\ EngineIdle
    /\ handed = <<>>
    /\ SchedIdle
    /\ disk \in QueryDirectories
    /\ now = 0
    /\ max_packets_per_file = 1
    /\ file_name_format = None
    /\ writer = <<>>
    /\ reader = <<>>
    /\ written = <<>>
    /\ wResult = "NotCalled"
    /\ batchUsed = FALSE
    /\ returned = <<>>
    /\ rResult = "NotCalled"
    /\ pidx_file = <<>>
    /\ \/ /\ pidx_index = <<IndexManagerGenerateIndex(disk, <<>>).index>>
          /\ iResult = [op |-> "IndexManager::generate_index",
                        result |-> "Ok", changes |-> 0]
       \/ /\ DOMAIN disk # {}
          /\ pidx_index = <<PidxManagerGenerateIndex(disk).index>>
          /\ iResult = [op |-> "PidxManager::generate_index",
                        result |-> "Ok", changes |-> 0]
    /\ query = <<>>

Answer(op, args, result) ==
    /\ query' = <<[op |-> op, args |-> args, result |-> result]>>
    /\ UNCHANGED <<disk, pidx_file, pidx_index, iResult>>
    /\ IndexFrame

OfLibrary == iResult.op = "IndexManager::generate_index"
OfApplication == iResult.op = "PidxManager::generate_index"

LibraryFind(ts) ==
    /\ OfLibrary
    /\ Answer("PidxIndex::find_packet_by_timestamp (library)", <<ts>>,
              find_packet_by_timestamp(pidx_index[1], ts))

ApplicationFind(ts) ==
    /\ OfApplication
    /\ \E result \in PidxIndexFind(pidx_index[1], ts) :
           Answer("PidxIndex::find_packet_by_timestamp (application)",
                  <<ts>>, result)

MultiReaderFindPacket(ts) ==
    /\ OfApplication
    /\ Answer("MultiPcapReader::find_packet_by_timestamp", <<ts>>,
              MultiReaderFind(pidx_index[1], ts))

LibraryRange(start_ns, end_ns) ==
    /\ OfLibrary
    /\ Answer("PidxIndex::get_packets_in_range (library)",
              <<start_ns, end_ns>>,
              get_packets_in_range(pidx_index[1], start_ns, end_ns))

ApplicationRange(start_ns, end_ns) ==
    /\ OfApplication
    /\ \E result \in PidxIndexRange(pidx_index[1], start_ns, end_ns) :
           Answer("PidxIndex::get_packets_in_range (application)",
                  <<start_ns, end_ns>>, result)

QueryNext ==
    \/ \E ts \in QueryTimes : LibraryFind(ts)
    \/ \E ts \in QueryTimes : ApplicationFind(ts)
    \/ \E ts \in QueryTimes : MultiReaderFindPacket(ts)
    \/ \E start_ns, end_ns \in QueryTimes : LibraryRange(start_ns, end_ns)
    \/ \E start_ns, end_ns \in QueryTimes :
           ApplicationRange(start_ns, end_ns)

QuerySpec == QueryInit /\ [][QueryNext]_vars

(***************************************************************************)
(* Specification of reading record files.  The directory holds up to two   *)
(* record files, each one of the contents of the index specification or a  *)
(* record followed by a record that is cut short in its header or in its   *)
(* payload.  An index has been built over the directory by the library or  *)
(* by the application.  The files are read record by record with either    *)
(* reader, and records are read at the offsets of the index entries.       *)
(***************************************************************************)
\* a file whose last record was written in part: the first cut bytes of it
Truncated(packets, last, cut) ==
    RecordFile(packets) \o SubSeq(PacketToBytes(last), 1, cut)

ReadContents ==
    IndexContents \cup
        {Truncated(<<Record1>>, Record2, PACKET_HEADER_SIZE - 6),
         Truncated(<<Record1>>, Record2, PACKET_HEADER_SIZE + 1)}

ReadDirectories ==
    UNION {[names -> ReadContents] : names \in SUBSET IndexFileNames}

ReadInit ==
    /\ EngineIdle
    /\ handed = <<>>
    /\ SchedIdle
    /\ disk \in ReadDirectories
    /\ now = 0
    /\ max_packets_per_file = 1
    /\ file_name_format = None
    /\ writer = <<>>
    /\ reader = <<>>
    /\ written = <<>>
    /\ wResult = "NotCalled"
    /\ batchUsed = FALSE
    /\ returned = <<>>
    /\ rResult = "NotCalled"
    /\ pidx_file = <<>>
    /\ \/ /\ pidx_index = <<IndexManagerGenerateIndex(disk, <<>>).index>>
          /\ iResult = [op |-> "IndexManager::generate_index",
                        result |-> "Ok", changes |-> 0]
       \/ /\ DOMAIN disk # {}
          /\ pidx_index = <<PidxManagerGenerateIndex(disk).index>>
          /\ iResult = [op |-> "PidxManager::generate_index",
                        result |-> "Ok", changes |-> 0]
    /\ query = <<>>

\* the results of the read_packet calls on an opened file from position pos
\* up to the first that is not a record, each with the position it began at
RECURSIVE FrResults(_, _, _)
FrResults(bytes, pos, enable_validation) ==
    With(FrReadPacket(bytes, pos, enable_validation), LAMBDA r :
        <<[at |-> pos, result |-> r]>>
            \o (IF r.kind = "Some"
                THEN FrResults(bytes, r.pos, enable_validation) ELSE <<>>))

\* the same for read_next_packet of the application's reader
RECURSIVE AppResults(_, _)
AppResults(bytes, pos) ==
    With(AppReadPacket(bytes, pos), LAMBDA r :
        <<[at |-> pos, result |-> r]>>
            \o (IF r.kind = "Some" THEN AppResults(bytes, r.pos) ELSE <<>>))

\* a file of the directory is read to its end with the library's
\* PcapFileReader (open, then read_packet until it returns no record)
LibraryRead(name, enable_validation) ==
    /\ FrOpenOk(disk, name)
    /\ query' = <<[op |-> "read", reader |-> "library", file |-> name,
                   enable_validation |-> enable_validation,
                   results |-> FrResults(disk[name], HEADER_SIZE,
                                         enable_validation)]>>
    /\ UNCHANGED <<disk, pidx_file, pidx_index, iResult>>
    /\ IndexFrame

\* the same with the application's PcapReader (new, then read_next_packet)
ApplicationRead(name) ==
    /\ AppOpenOk(disk, name)
    /\ query' = <<[op |-> "read", reader |-> "application", file |-> name,
                   enable_validation |-> TRUE,
                   results |-> AppResults(disk[name], HEADER_SIZE)]>>
    /\ UNCHANGED <<disk, pidx_file, pidx_index, iResult>>
    /\ IndexFrame

\* MultiPcapReader::read_packet_from_entry for an entry of the index held
\* in memory
ReadPacketFromEntry ==
    /\ pidx_index # <<>>
    /\ \E i \in 1..Len(pidx_index[1].files) :
       \E j \in 1..Len(pidx_index[1].files[i].data_packets) :
          query' = <<[op |-> "read_packet_from_entry",
                      file |-> pidx_index[1].files[i].file_name,
                      entry |-> pidx_index[1].files[i].data_packets[j],
                      result |-> read_packet_from_entry(
                          disk, pidx_index[1].files[i].file_name,
                          pidx_index[1].files[i].data_packets[j].byte_offset)]>>
    /\ UNCHANGED <<disk, pidx_file, pidx_index, iResult>>
    /\ IndexFrame

ReadNext ==
    \/ \E name \in IndexFileNames, enable_validation \in BOOLEAN :
           LibraryRead(name, enable_validation)
    \/ \E name \in IndexFileNames : ApplicationRead(name)
    \/ ReadPacketFromEntry

ReadSpec == ReadInit /\ [][ReadNext]_vars

(***************************************************************************)
(* Specification of the multi-file readers of the application.  The        *)
(* dataset directory holds three record files for the reader of            *)
(* multi_pcap_reader.rs, whose cache size can be set, and six for the      *)
(* reader of pcap/multi_reader.rs, whose cache holds five readers.  Two    *)
(* records of different files share a timestamp.  The index is the one     *)
(* PidxManager::generate_index builds over the directory.  History: query  *)
(* keeps the last call with the cache before it; returned keeps the        *)
(* records read_next_packet returned since the reader was created or       *)
(* reset, as long as nothing else was called (rResult tells so).           *)
(***************************************************************************)
MultiName(c) == <<c>> \o PcapExtension

MultiRecord(nanos, byte) == from_timestamp(0, nanos, <<byte>>)

\* "a.pcap" .. "c.pcap": two records share the timestamp 200
ThreeFiles ==
    (MultiName(97) :> RecordFile(<<MultiRecord(100, 1), MultiRecord(200, 2)>>))
    @@ (MultiName(98) :> RecordFile(<<MultiRecord(200, 3), MultiRecord(300, 4)>>))
    @@ (MultiName(99) :> RecordFile(<<MultiRecord(400, 5)>>))

\* "a.pcap" .. "f.pcap"
SixFiles ==
    ThreeFiles
    @@ (MultiName(100) :> RecordFile(<<MultiRecord(500, 6)>>))
    @@ (MultiName(101) :> RecordFile(<<MultiRecord(600, 7)>>))
    @@ (MultiName(102) :> RecordFile(<<MultiRecord(700, 8)>>))

\* timestamps offered to read_packet_at_time and seek_to_time
MultiTimes == {0, 100, 200, 300, 400, 500, 600, 700}
\* sizes offered to set_cache_size
CacheSizes == {0, 1, 2}

MultiInit ==
    /\ EngineIdle
    /\ handed = <<>>
    /\ SchedIdle
    /\ \E module \in {OfMultiPcapReader, OfPcapMultiReader} :
          /\ reader = <<MultiPcapReaderNew(module)>>
          /\ disk = IF module = OfMultiPcapReader THEN ThreeFiles
                    ELSE SixFiles
    /\ now = 0
    /\ max_packets_per_file = 1
    /\ file_name_format = None
    /\ writer = <<>>
    /\ written = <<>>
    /\ wResult = "NotCalled"
    /\ batchUsed = FALSE
    /\ returned = <<>>
    /\ rResult = "Sequential"
    /\ pidx_file = <<>>
    /\ pidx_index = <<PidxManagerGenerateIndex(disk).index>>
    /\ iResult = [op |-> "PidxManager::generate_index", result |-> "Ok",
                  changes |-> 0]
    /\ query = <<>>

\* what no call on a multi-file reader touches
MultiFrame ==
    UNCHANGED <<engineVars, handed, schedVars, disk, now,
                max_packets_per_file, file_name_format, writer, written,
                wResult, batchUsed, pidx_file, pidx_index, iResult>>

\* a call op leaves the reader as rd; the history keeps the cache before it
MultiCall(op, rd) ==
    /\ reader' = <<rd>>
    /\ query' = <<[op |-> op,
                   cache |-> reader[1].reader_cache,
                   max_cache_size |-> reader[1].max_cache_size,
                   recent |-> reader[1].recent]>>
    /\ MultiFrame

\* the sequential history ends
NotSequential == returned' = <<>> /\ rResult' = "Mixed"

\* read_packet_from_entry: get_or_create_reader, seek_to_byte_position,
\* read_next_packet of the file reader
MultiReadEntry(op, rd, entry) ==
    \E after \in get_or_create_reader(rd, entry.file_name) :
        MultiCall(op, after)

\* read_packet_at_time
MultiReadPacketAtTime(timestamp) ==
    /\ reader # <<>>
    /\ \E found \in EntryAtTime(reader[1], pidx_index[1], timestamp) :
          IF found = <<>> THEN MultiCall("read_packet_at_time", reader[1])
          ELSE MultiReadEntry("read_packet_at_time", reader[1], found[1])
    /\ NotSequential

\* read_next_packet
MultiReadNextPacket ==
    /\ reader # <<>>
    /\ \E next \in {NextEntry(reader[1], pidx_index[1])} :
          IF next = <<>>
          THEN /\ MultiCall("read_next_packet", reader[1])
               /\ returned' = returned
               /\ rResult' = IF rResult = "Mixed" THEN "Mixed" ELSE "Done"
          ELSE /\ MultiReadEntry("read_next_packet",
                      [reader[1] EXCEPT
                         !.current_timestamp = next[1].timestamp_ns],
                      next[1])
               /\ \E r \in {read_packet_from_entry(disk, next[1].file_name,
                                                  next[1].byte_offset)} :
                     returned' =
                         IF rResult = "Sequential" /\ r.kind = "Some"
                         THEN Append(returned,
                                     [timestamp_ns |-> r.timestamp_ns,
                                      data |-> r.data])
                         ELSE <<>>
               /\ rResult' = IF rResult = "Sequential" THEN "Sequential"
                             ELSE "Mixed"

\* seek_to_time / seek_to_timestamp
MultiSeekToTime(target_time) ==
    /\ reader # <<>>
    /\ MultiCall("seek_to_time",
                 [reader[1] EXCEPT !.current_timestamp = target_time])
    /\ NotSequential

\* reset
MultiReset ==
    /\ reader # <<>>
    /\ MultiCall("reset",
                 [reader[1] EXCEPT !.current_timestamp =
                                       pidx_index[1].start_timestamp])
    /\ returned' = <<>>
    /\ rResult' = "Sequential"

\* clear_cache
ClearCache ==
    /\ reader # <<>>
    /\ MultiCall("clear_cache", clear_cache(reader[1]))
    /\ UNCHANGED <<returned, rResult>>

\* set_cache_size, which only multi_pcap_reader.rs has
SetCacheSize(size) ==
    /\ reader # <<>>
    /\ reader[1].module = OfMultiPcapReader
    /\ \E after \in set_cache_size(reader[1], size) :
          MultiCall("set_cache_size", after)
    /\ UNCHANGED <<returned, rResult>>

MultiNext ==
    \/ \E timestamp \in MultiTimes : MultiReadPacketAtTime(timestamp)
    \/ MultiReadNextPacket
    \/ \E target_time \in MultiTimes : MultiSeekToTime(target_time)
    \/ MultiReset
    \/ ClearCache
    \/ \E size \in CacheSizes : SetCacheSize(size)

MultiSpec == MultiInit /\ [][MultiNext]_vars

(***************************************************************************)
(* Claims about the playback engine.                                       *)
(***************************************************************************)

\* C1: the playback status changes only along Stopped -> Playing,
\* Playing -> Paused, Paused -> Playing, Playing -> Completed (only when the
\* cursor reaches end_time), and any state -> Stopped by a stop() call.
C1_AllowedChange ==
    \/ status = "Stopped" /\ status' = "Playing"
    \/ status = "Playing" /\ status' = "Paused"
    \/ status = "Paused" /\ status' = "Playing"
    \/ status = "Playing" /\ status' = "Completed"
                          /\ current_timestamp' = EndTime
    \/ status' = "Stopped" /\ Stop

C1_OnlySpecifiedTransitions ==
    [][status' # status => C1_AllowedChange]_vars

C4_DispatchOrder ==
    \A i \in 1..Len(handed) : \A j \in i..Len(handed) :
        handed[i].timestamp <= handed[j].timestamp

\* C4 witness: two events of different timestamps have been dispatched and
\* an event is still queued
C4_Witness ==
    /\ phase = "run"
    /\ Len(handed) >= 2
    /\ handed[1].timestamp < handed[Len(handed)].timestamp
    /\ events # <<>>

\* the records of dataset d1: three records spanning 100 ms
DatasetRecords ==
    <<[timestamp |-> 0, data |-> 1], [timestamp |-> 50, data |-> 2],
      [timestamp |-> 100, data |-> 2]>>

\* the run of task i is over: the loop was left
RunOver == \E i \in TaskIds : tasks[i].pc \in {"exit", "done"}

FileRecords(f) == FrReadAll(disk[f], HEADER_SIZE)

RECURSIVE ConcatRecords(_)
ConcatRecords(files) ==
    IF files = <<>> THEN <<>>
    ELSE FileRecords(Head(files)) \o ConcatRecords(Tail(files))

RECURSIVE CountRecords(_)
CountRecords(S) ==
    IF S = {} THEN 0
    ELSE LET f == CHOOSE g \in S : TRUE
         IN Len(FileRecords(f)) + CountRecords(S \ {f})

CeilDiv(n, m) == (n + m - 1) \div m

C9_NoFileOverMax ==
    \A f \in DOMAIN disk : Len(FileRecords(f)) <= max_packets_per_file

C9_Witness ==
    /\ batchUsed
    /\ writer # <<>>
    /\ Len(written) > max_packets_per_file
    /\ Cardinality(DOMAIN disk) > Len(writer[1].created_files)
    /\ \E f \in DOMAIN disk : Len(FileRecords(f)) = max_packets_per_file

\* C10: read_packet returns None only when every record of every file has
\* been returned, files without records being passed over; on a dataset
\* without files the first call returns None.
C10_NoneOnlyAtEnd ==
    /\ rResult = "None" => returned = ConcatRecords(scan_pcap_files(disk))
    /\ (reader # <<>> /\ DOMAIN disk = {} /\ rResult # "NotCalled")
           => rResult = "None"

C10_Witness ==
    /\ rResult = "None"
    /\ Len(returned) >= 2
    /\ reader[1].pcap_files # <<>>
    /\ FileRecords(reader[1].pcap_files[1]) = <<>>

C10_WitnessNoFiles ==
    /\ rResult = "None"
    /\ reader # <<>>
    /\ DOMAIN disk = {}

(***************************************************************************)
(* Claims about the index.                                                 *)
(***************************************************************************)
\* C11: whatever the dataset directory holds, ensure_valid_index returns
\* without error and leaves a persisted sidecar that parses and that
\* is_index_valid accepts, so that a second ensure_valid_index on unchanged
\* files does not rebuild.
C11_EnsureValidSelfHeals ==
    iResult.op = "ensure_valid_index" =>
        /\ iResult.result = "Ok"
        /\ pidx_file # <<>>
        /\ validate_pidx_format(pidx_file)
        /\ is_index_valid(load_index(pidx_file), disk)
        /\ iResult.again => ~iResult.rebuilt

\* the cases in which the spec calls an index out of date
Stale(index, dsk) ==
    \/ Cardinality(DOMAIN dsk) # Len(index.files)
    \/ \E i \in 1..Len(index.files) :
           \/ index.files[i].file_name \notin DOMAIN dsk
           \/ dsk[index.files[i].file_name] # index.files[i].file_hash

\* C12: an index is reported invalid by every validity check whenever the
\* number of record files differs from the number of indexed files, an
\* indexed file's content hash differs from the stored hash, or an indexed
\* file no longer exists.
C12_StaleReportedInvalid ==
    (query # <<>> /\ query[1].op = "validity"
                 /\ Stale(pidx_index[1], disk))
        => query[1].needs_rebuild /\ ~query[1].verify_index_validity
\* an index was just built by the library and is held in memory
LibraryBuilt ==
    /\ iResult.op \in {"IndexManager::generate_index",
                       "PidxWriter::generate_index", "ensure_valid_index"}
    /\ iResult.result = "Ok"
    /\ pidx_index # <<>>

\* C13: after the index is built, total_packets equals the number of
\* records stored in the record files of the directory, and equals the sum
\* of the per-file record counts, whatever the directory holds.
C13_TotalPacketsIsRecordCount ==
    LibraryBuilt =>
        /\ pidx_index[1].total_packets = CountRecords(DOMAIN disk)
        /\ pidx_index[1].total_packets =
               SeqSum([i \in 1..Len(pidx_index[1].files) |->
                          Len(pidx_index[1].files[i].data_packets)])

\* a record file that holds a valid header followed by complete records
\* with matching checksums and nothing else
WellFormed(f) == disk[f] = RecordFile(FileRecords(f))

\* C13 as amended: after the index is built on a directory whose record
\* files are all well formed, total_packets equals the number of records
\* stored in the record files and equals the sum of the per-file record
\* counts.
C13_TotalPacketsOfWellFormed ==
    (LibraryBuilt /\ \A f \in DOMAIN disk : WellFormed(f)) =>
        /\ pidx_index[1].total_packets = CountRecords(DOMAIN disk)
        /\ pidx_index[1].total_packets =
               SeqSum([i \in 1..Len(pidx_index[1].files) |->
                          Len(pidx_index[1].files[i].data_packets)])

\* an index built over two well-formed files that hold three records
C13_Witness ==
    /\ LibraryBuilt
    /\ \A f \in DOMAIN disk : WellFormed(f)
    /\ Cardinality(DOMAIN disk) = 2
    /\ pidx_index[1].total_packets = 3

\* C14: after the index is built, start_timestamp <= end_timestamp, and
\* start_timestamp <= t <= end_timestamp for the timestamp t of every record
\* of the dataset.
C14_TimeRangeBoundsRecords ==
    LibraryBuilt =>
        /\ pidx_index[1].start_timestamp <= pidx_index[1].end_timestamp
        /\ \A f \in DOMAIN disk :
               \A i \in 1..Len(FileRecords(f)) :
                   /\ pidx_index[1].start_timestamp
                          <= timestamp_ns(FileRecords(f)[i])
                   /\ timestamp_ns(FileRecords(f)[i])
                          <= pidx_index[1].end_timestamp

GenerateOps ==
    {"PidxWriter::generate_index", "IndexManager::generate_index",
     "PidxManager::generate_index"}

\* generate_index has just run, by one of ops, on a directory without
\* record files
GeneratedOnEmpty(ops) == iResult.op \in ops /\ DOMAIN disk = {}

EmptyIndexBuilt ==
    /\ iResult.result = "Ok"
    /\ pidx_index # <<>>
    /\ pidx_index[1].total_packets = 0
    /\ pidx_index[1].files = <<>>

\* C17: generate_index on a directory without record files succeeds and
\* yields an empty index: total_packets = 0 and no files.
C17_EmptyDirectoryEmptyIndex == GeneratedOnEmpty(GenerateOps) => EmptyIndexBuilt

(***************************************************************************)
(* Claims about the queries.                                               *)
(***************************************************************************)
\* the entries of the index under query
Indexed == AllEntries(pidx_index[1].files)
IndexedSet == {Indexed[i] : i \in 1..Len(Indexed)}

FindOps ==
    {"PidxIndex::find_packet_by_timestamp (library)",
     "PidxIndex::find_packet_by_timestamp (application)",
     "MultiPcapReader::find_packet_by_timestamp"}
RangeOps ==
    {"PidxIndex::get_packets_in_range (library)",
     "PidxIndex::get_packets_in_range (application)"}

\* the last query was a find on an index with entries
FoundIn(ops) ==
    /\ query # <<>>
    /\ query[1].op \in ops
    /\ Indexed # <<>>

\* the result of the last query is an entry of the index at least distance
\* from the timestamp asked for
ClosestReturned ==
    /\ query[1].result # <<>>
    /\ query[1].result[1] \in IndexedSet
    /\ \A e \in IndexedSet :
           AbsDiff(query[1].result[1].timestamp_ns, query[1].args[1])
               <= AbsDiff(e.timestamp_ns, query[1].args[1])

\* C15: on an index with entries, find_packet_by_timestamp returns, for any
\* timestamp, an entry whose timestamp is closest to it among all entries
\* of the index (so an entry with exactly that timestamp when one exists).
C15_FindReturnsClosest == FoundIn(FindOps) => ClosestReturned

\* how often a value occurs in a sequence
Occurrences(seq, e) == Cardinality({i \in 1..Len(seq) : seq[i] = e})

RangeAsked ==
    /\ query # <<>>
    /\ query[1].op \in RangeOps

\* C16: get_packets_in_range(start, end) returns exactly the index entries
\* with start <= timestamp <= end, each as often as the index holds it
\* (entries that share a timestamp included) and no others, in ascending
\* order of timestamp.
C16_RangeExactAndSorted ==
    RangeAsked =>
        LET result == query[1].result
            InAsked(e) == /\ query[1].args[1] <= e.timestamp_ns
                          /\ e.timestamp_ns <= query[1].args[2]
        IN /\ \A i \in 1..Len(result) :
                  InAsked(result[i]) /\ result[i] \in IndexedSet
           /\ \A e \in IndexedSet :
                  InAsked(e) => Occurrences(result, e) = Occurrences(Indexed, e)
           /\ \A i, j \in 1..Len(result) :
                  i < j => result[i].timestamp_ns <= result[j].timestamp_ns

(***************************************************************************)
(* Claims about the lookup map.                                            *)
(***************************************************************************)
\* an index was just built, loaded or rebuilt and is held in memory
InMemoryAfter(ops) ==
    /\ iResult.op \in ops
    /\ iResult.result = "Ok"
    /\ pidx_index # <<>>

MapMatchesEntries ==
    /\ Cardinality(DOMAIN pidx_index[1].timestamp_index)
           = pidx_index[1].total_packets
    /\ \A e \in IndexedSet :
           e.timestamp_ns \in DOMAIN pidx_index[1].timestamp_index
    /\ Values(pidx_index[1].timestamp_index) \subseteq IndexedSet

\* C18: after an index is built, loaded or rebuilt, the timestamp lookup
\* map holds one entry for each entry of the index: its size is
\* total_packets, every indexed timestamp is a key, and every value is an
\* entry of the index.
C18_LookupMapMatchesEntries ==
    InMemoryAfter(GenerateOps \cup {"ensure_valid_index", "load_index",
                                    "rebuild_index"})
        => MapMatchesEntries

(***************************************************************************)
(* Claims about the timeline of the engine.                                *)
(***************************************************************************)
\* a step of start() that succeeds: it spawns a playback task
StartStep == Len(tasks') > Len(tasks)

PlayingTick == ticks' = ticks + 1 /\ status = "Playing"

NoneDueAt(evs, t) == evs = <<>> \/ Head(evs).timestamp > t

ReadDone == query # <<>> /\ query[1].op = "read" /\ query[1].enable_validation

\* the record that starts at position at of file f is whole and its stored
\* checksum is not the CRC32 of its payload
ChecksumDiffers(f, at) ==
    /\ Len(disk[f]) - at >= PACKET_HEADER_SIZE
    /\ Len(disk[f]) - at - PACKET_HEADER_SIZE >= FromLE32(disk[f], at + 8)
    /\ SubSeq(disk[f], at + 13, at + 16)
           # calculate_crc32(SubSeq(disk[f], at + PACKET_HEADER_SIZE + 1,
                                    at + PACKET_HEADER_SIZE
                                       + FromLE32(disk[f], at + 8)))

\* C24: with validation enabled, reading a record whose stored checksum
\* differs from the CRC32 of its payload fails with the checksum error; the
\* record is not returned.
C24_MismatchIsAnError ==
    ReadDone =>
        \A i \in 1..Len(query[1].results) :
            ChecksumDiffers(query[1].file, query[1].results[i].at) =>
                /\ query[1].results[i].result.kind = "Err"
                /\ query[1].results[i].result.error = "CorruptedData"


\* a file has just been read record by record
ReadAll == query # <<>> /\ query[1].op = "read"

\* the record that starts at position at of file f is cut short by the end
\* of the file, in its header or in its payload
CutShort(f, at) ==
    /\ Len(disk[f]) > at
    /\ \/ Len(disk[f]) - at < PACKET_HEADER_SIZE
       \/ Len(disk[f]) - at - PACKET_HEADER_SIZE < FromLE32(disk[f], at + 8)

\* C25: a last record cut short by the end of the file, in its header or in
\* its payload, reads as the end of the records (None), not as an error.
C25_TruncatedTailIsEnd ==
    ReadAll =>
        \A i \in 1..Len(query[1].results) :
            CutShort(query[1].file, query[1].results[i].at) =>
                query[1].results[i].result.kind = "None"


(***************************************************************************)
(* Claims about failures of the writer.                                    *)
(***************************************************************************)
\* the next write of a valid record rotates: the current file is full
RotationDue ==
    /\ WriterLive
    /\ ~writer[1].is_finalized
    /\ writer[1].current_writer # <<>>
    /\ writer[1].current_file_packet_count >= max_packets_per_file

\* a write of a valid record rotates and the next file cannot be opened
FailedRotationStep ==
    /\ RotationDue
    /\ \E p \in PacketInputs : is_valid(p) /\ WritePacketOpenFails(p)

\* C26: when the next file cannot be opened during a rotation, the write
\* returns an error, the record is not counted as written, and every file
\* written before still reads back the records it held.
C26_FailedRotationKeepsFiles ==
    [][FailedRotationStep =>
          /\ wResult' \notin {"Ok", "NotCalled", "Panic"}
          /\ written' = written
          /\ writer'[1].total_packet_count = writer[1].total_packet_count
          /\ writer'[1].created_files = writer[1].created_files
          /\ DOMAIN disk' = DOMAIN disk
          /\ \A f \in DOMAIN disk :
                FrReadAll(disk'[f], HEADER_SIZE) = FrReadAll(disk[f], HEADER_SIZE)]_vars

\* a rotation has just failed after a file was completed
C26_Witness ==
    /\ writer # <<>>
    /\ wResult = "Err"
    /\ ~writer[1].is_finalized
    /\ writer[1].current_writer = <<FwClosed>>
    /\ writer[1].created_files # <<>>
    /\ writer[1].current_file_packet_count >= max_packets_per_file
    /\ writer[1].total_packet_count = Len(written)
    /\ Len(written) >= 1
    /\ \E f \in DOMAIN disk : FrReadAll(disk[f], HEADER_SIZE) # <<>>


\* C27: finalize() returns success on every call, and every call after the
\* first leaves the record files, the record counts, the sidecar index and
\* the writer as the first call left them.
C27_FinalizeIdempotent ==
    [][Finalize =>
          /\ wResult' = "Ok"
          /\ writer'[1].is_finalized
          /\ writer[1].is_finalized =>
                /\ disk' = disk
                /\ pidx_file' = pidx_file
                /\ writer' = writer
                /\ written' = written]_vars

\* the state finalize() leaves on a dataset with records and a sidecar
\* index, after its first call and after every later one
C27_Witness ==
    /\ writer # <<>>
    /\ writer[1].is_finalized
    /\ wResult = "Ok"
    /\ pidx_file # <<>>
    /\ writer[1].total_packet_count >= 2
    /\ Len(writer[1].created_files) >= 2


(***************************************************************************)
(* Claims about the event scheduler.                                       *)
(***************************************************************************)
\* get_next_event has been called on the scheduler
GotNext == lastSend # <<>> /\ "next_event" \in DOMAIN lastSend[1]

\* the sequence s without its i-th element
Without(s, i) == SubSeq(s, 1, i - 1) \o SubSeq(s, i + 1, Len(s))

\* some queued event of evs is due at time t
SomeDueAt(evs, t) == \E i \in 1..Len(evs) : evs[i].timestamp <= t

\* C28: get_next_event(current_time) removes and returns a queued event of
\* the smallest timestamp when that timestamp is at most current_time;
\* otherwise it returns None and leaves the queued events as they were.
C28_NextDueIsEarliest ==
    GotNext =>
        LET c == lastSend[1]
        IN IF SomeDueAt(c.queued, c.current_time)
           THEN /\ c.next_event # <<>>
                /\ \A i \in 1..Len(c.queued) :
                      c.next_event[1].timestamp <= c.queued[i].timestamp
                /\ \E i \in 1..Len(c.queued) :
                      /\ c.queued[i] = c.next_event[1]
                      /\ c.left = Without(c.queued, i)
           ELSE /\ c.next_event = <<>>
                /\ c.left = c.queued

\* the earliest of several events of different timestamps was taken while a
\* later one was due as well
C28_Witness ==
    /\ GotNext
    /\ lastSend[1].next_event # <<>>
    /\ Len(lastSend[1].queued) >= 2
    /\ \E i \in 1..Len(lastSend[1].queued) :
          /\ lastSend[1].queued[i].timestamp > lastSend[1].next_event[1].timestamp
          /\ lastSend[1].queued[i].timestamp <= lastSend[1].current_time


(***************************************************************************)
(* Claims about the timeline controller.                                   *)
(***************************************************************************)
\* advance_time has just been called
AdvanceDone == lastResult # <<>>

\* C29: advance(d) moves current_time by exactly d * speed, a result at or
\* past end_time being clamped to end_time, and returns true exactly when
\* the end was reached.  Speeds are tenths, so ten times the new time is
\* ten times the old one plus d times the speed.
C29_AdvanceByDeltaTimesSpeed ==
    AdvanceDone =>
        LET b == lastResult[1].before
            target == b.current_time * DefaultSpeed
                          + lastResult[1].delta_ms * b.playback_speed
        IN IF target >= b.end_time * DefaultSpeed
           THEN /\ timeline[1].current_time = b.end_time
                /\ lastResult[1].at_end
           ELSE /\ timeline[1].current_time * DefaultSpeed = target
                /\ ~lastResult[1].at_end


(***************************************************************************)
(* Claims about reading by index entry.                                    *)
(***************************************************************************)
\* a record has just been read at the offset of an entry of the built index
EntryRead == query # <<>> /\ query[1].op = "read_packet_from_entry"

\* C30: for every entry of a built index, seeking the entry's file to its
\* byte_offset and reading one record returns the record that has the
\* entry's timestamp and size.
C30_EntryLocatesRecord ==
    EntryRead =>
        /\ query[1].result.kind = "Some"
        /\ query[1].result.timestamp_ns = query[1].entry.timestamp_ns
        /\ query[1].result.size = query[1].entry.packet_size
        /\ Len(query[1].result.data) = query[1].entry.packet_size

\* the record read is not the first of its file, and the file holds records
\* of different timestamps
C30_Witness ==
    /\ EntryRead
    /\ query[1].result.kind = "Some"
    /\ query[1].entry.byte_offset > HEADER_SIZE
    /\ \E at \in HEADER_SIZE..(query[1].entry.byte_offset - 1) :
          /\ AppReadPacket(disk[query[1].file], at).kind = "Some"
          /\ AppReadPacket(disk[query[1].file], at).timestamp_ns
                 # query[1].entry.timestamp_ns


(***************************************************************************)
(* Claims about the index of a written dataset.                            *)
(***************************************************************************)
\* C31: in every file entry of the sidecar index that finalize() builds, the
\* packet entries are in ascending order of their timestamps, in whatever
\* order of timestamps the records were written.
C31_EntriesAscending ==
    (pidx_file # <<>> /\ "files" \in DOMAIN pidx_file[1]) =>
        \A i \in 1..Len(pidx_file[1].files) :
            LET es == pidx_file[1].files[i].data_packets
            IN \A j \in 1..Len(es) : \A k \in j..Len(es) :
                   es[j].timestamp_ns <= es[k].timestamp_ns


(***************************************************************************)
(* Claims about the multi-file readers.                                    *)
(***************************************************************************)
\* a multi-file reader exists
MultiReader == reader # <<>> /\ "reader_cache" \in DOMAIN reader[1]

\* C32: after any sequence of reads, seeks, clear_cache and set_cache_size
\* calls, the number of cached file readers is at most the configured cache
\* size.
C32_CacheWithinCapacity ==
    MultiReader =>
        Cardinality(reader[1].reader_cache) <= reader[1].max_cache_size


\* the last call opened a file that the full, non-empty cache did not hold
FullCacheMiss ==
    /\ MultiReader /\ query # <<>>
    /\ query[1].cache # {}
    /\ Cardinality(query[1].cache) >= query[1].max_cache_size
    /\ reader[1].recent # <<>>
    /\ reader[1].recent[Len(reader[1].recent)] \notin query[1].cache

\* C33: when the cache is full and a file outside it is opened, exactly one
\* reader leaves the cache, the least recently used one, and every other
\* cached reader stays.
C33_EvictsLeastRecentlyUsed ==
    FullCacheMiss =>
        query[1].cache \ reader[1].reader_cache = {query[1].recent[1]}


\* the records the index of the dataset lists, as (timestamp, payload) pairs
\* in a bag
IndexedRecords ==
    LET entries == AllEntries(pidx_index[1].files)
        rec(i) == With(read_packet_from_entry(disk, entries[i].file_name,
                                              entries[i].byte_offset),
                       LAMBDA r : [timestamp_ns |-> r.timestamp_ns,
                                   data |-> r.data])
    IN [r \in {rec(i) : i \in 1..Len(entries)} |->
           Cardinality({i \in 1..Len(entries) : rec(i) = r})]

\* the records of a sequence in a bag
ReturnedRecords ==
    [r \in {returned[i] : i \in 1..Len(returned)} |->
        Cardinality({i \in 1..Len(returned) : returned[i] = r})]

\* C38: read_next_packet repeated on a new or reset multi-file reader until
\* it answers None has returned every indexed record exactly once, in
\* non-decreasing order of timestamp.
C38_SequentialReadIsComplete ==
    (MultiReader /\ rResult = "Done") =>
        /\ ReturnedRecords = IndexedRecords
        /\ \A i \in 1..Len(returned) : \A j \in i..Len(returned) :
               returned[i].timestamp_ns <= returned[j].timestamp_ns


C35_FailedStartLeavesStopped ==
    lastResult = "Err" =>
        /\ status = "Stopped"
        /\ \A i \in TaskIds : ~TaskAlive(i)


(***************************************************************************)
(* Further claims about the dataset writer.                                *)
(***************************************************************************)
\* a write call on a writer that finalize() has completed; the batch holds
\* a record
WriteAfterFinalize ==
    /\ WriterLive
    /\ writer[1].is_finalized
    /\ \/ \E p \in PacketInputs : WritePacket(p)
       \/ \E packets \in BatchInputs \ {<<>>} : WritePackets(packets)

\* C36: once finalize() has succeeded, every write_packet and write_packets
\* call fails with an invalid-state error and creates or changes no file.
C36_NoWriteAfterFinalize ==
    [][WriteAfterFinalize =>
          /\ wResult' = "InvalidState"
          /\ disk' = disk]_vars


\* write_packet called for each record of a batch in order, up to the first
\* call that fails
RECURSIVE WriteEach(_, _)
WriteEach(st, packets) ==
    IF packets = <<>> \/ st.result # "Ok" THEN st
    ELSE WriteEach(write_packet(st, Head(packets)), Tail(packets))

\* the records of the files of a directory, file by file, in a bag
RecordsByFile(d) ==
    LET recs(f) == FrReadAll(d[f], HEADER_SIZE)
    IN [c \in {recs(f) : f \in DOMAIN d} |->
           Cardinality({f \in DOMAIN d : recs(f) = c})]

\* C37: a successful write_packets(ps) leaves what write_packet for each
\* record of ps in order leaves: as many record files, the same records in
\* each file, the same total_packets, and a file_count equal to the number
\* of record files in the dataset directory.
C37_BatchEqualsSingles ==
    [][\A packets \in BatchInputs :
          (/\ WriterLive
           /\ ~writer[1].is_finalized
           /\ WritePackets(packets)
           /\ wResult' = "Ok") =>
              \E each \in {WriteEach(WriterState, packets)} :
                 /\ each.result = "Ok"
                 /\ Cardinality(DOMAIN disk') = Cardinality(DOMAIN each.disk)
                 /\ RecordsByFile(disk') = RecordsByFile(each.disk)
                 /\ writer'[1].total_packet_count = each.w.total_packet_count
                 /\ Len(writer'[1].created_files)
                        = Cardinality(DOMAIN disk')]_vars


Waits(t, m) ==
    /\ mutex[m] # Free
    /\ IF t = ControlThread
       THEN control.pc = (IF m = "state" THEN "lock_state"
                          ELSE "lock_is_running")
       ELSE /\ t[2] \in TaskIds
            /\ tasks[t[2]].pc # "done"
            /\ ~tasks[t[2]].held
            /\ TaskMutex(tasks[t[2]].pc) = m

Threads == {ControlThread} \cup {TaskThread(i) : i \in TaskIds}
Mutexes == {"state", "is_running"}

\* thread t runs, or waits for a mutex whose holder runs, or whose holder
\* waits for a mutex whose holder runs, and so on over at most k waits
RECURSIVE WaitEnds(_, _)
WaitEnds(t, k) ==
    \A m \in Mutexes : Waits(t, m) => (k > 0 /\ WaitEnds(mutex[m], k - 1))

\* C40: control operations and tick loops never deadlock: from every thread
\* that waits for a mutex, the chain of holders ends in a thread that does
\* not wait and so runs on to the point where it drops its guard; every
\* wait ends, every control operation returns and every tick completes.
C40_NoDeadlock ==
    \A t \in Threads : WaitEnds(t, Cardinality(Mutexes))

\* pause() or stop() holds the state lock and waits for is_running, which a
\* task holds, while another task waits for the state lock
C40_Witness ==
    /\ control.op \in {"pause", "stop"}
    /\ Waits(ControlThread, "is_running")
    /\ mutex.state = ControlThread
    /\ \E i \in TaskIds : Waits(TaskThread(i), "state")


\* C40 in its temporal form, under FairLockSpec: a control operation that
\* was called returns, and a task that holds a guard drops it
EveryWaitEnds ==
    /\ (control.op # None) ~> (control.op = None)
    /\ \A i \in 1..MaxTasks :
          (i \in TaskIds /\ tasks[i].held)
              ~> (i \in TaskIds /\ ~tasks[i].held)

====
